---- MODULE Spec2Model ----
(***************************************************************************)
(* A model of the KAZU entity data model and of the SapBert linking step   *)
(* with its lookup cache.                                                  *)
(*                                                                         *)
(*   SpecSapBert : SapBertForEntityLinkingStep (_run, check_lookup_cache,  *)
(*                 update_lookup_cache) over an LFU lookup cache.          *)
(*   SpecEntity  : construction of Entity instances and the overlap        *)
(*                 queries between two of them.                            *)
(*   SpecIdentity: Entity instances in a set, compared by __eq__ and       *)
(*                 __hash__, while their mappings change.                  *)
(***************************************************************************)
EXTENDS Integers, Sequences, FiniteSets, TLC

VARIABLES
    \* ---- SapBertForEntityLinkingStep ----
    pc,             \* where the step is: "idle", "ready", "returned", "raised"
    docs_in,        \* the entities of the documents as handed to _run, in order
    docs,           \* the same entities, as the step has changed them so far
    lookup_cache,   \* self.lookup_cache: LFUCache entries, in counter order
    cache_pre,      \* self.lookup_cache as it was when the last _run started
    cache_misses,   \* what check_lookup_cache returned in the last _run
    results,        \* the vectors the embedding call returned in the last _run
    embed_calls,    \* number of embedding calls made by the last _run
    updates,        \* the update_lookup_cache calls of the last _run
    \* ---- Entity construction and overlap queries ----
    ent_self,       \* <<e>>: the Entity the queries are called on, or <<>>
    ent_other,      \* <<e>>: the Entity passed to the queries, or <<>>
    ctor_via,       \* the path of the last construction: "none", "init", "from_spans", "load_contiguous_entity"
    ctor_args,      \* the spans given to the last construction
    ctor_status,    \* how the last construction ended: "none", "ok", "ValueError"
    overlap_result, \* <<b>>: result of the last is_partially_overlapped, or <<>>
    complete_result, \* <<b>>: result of the last is_completely_overlapped, or <<>>
    \* ---- Entity identity ----
    heap,           \* the live Entity instances; an instance's id is its position
    ent_set,        \* a Python set of Entity instances: entries [hash, ref]
    added,          \* the instances that were added to ent_set
    \* ---- Entity.syn_term_to_synonym_terms ----
    syn_term_to_synonym_terms, \* the dict of an Entity: entries [key, value], in insertion order
    syn_terms_rev,  \* the dict of a second Entity that is given the same terms, last first
    term_log,       \* the terms passed to update_terms so far, in order
    \* ---- CuratedTerm ----
    cur_term,       \* <<ct>>: the CuratedTerm that was constructed, or <<>>
    cur_args,       \* <<args>>: the arguments of the last CuratedTerm(...), or <<>>
    cur_status,     \* how it ended: "none", "ok", "ValueError", "RuntimeError"
    norm_result,    \* the outcome of the last term_norm_for_linking, or <<>>
    \* ---- GlobalParserActions ----
    gpa,            \* <<g>>: the GlobalParserActions [actions, parser_name_to_action], or <<>>
    gpa_query,      \* the parser name of the last parser_behaviour call, or "none"
    gpa_result,     \* <<list>>: what the last parser_behaviour call yielded, or <<>>
    \* ---- Section.sentence_spans ----
    sentence_spans_field, \* self._sentence_spans: <<>> for None, or <<tuple>>
    sec_writes,     \* the writes of sentence_spans so far: [sent_spans, outcome]
    sec_read,       \* <<tuple>>: what sentence_spans gave when last read, or <<>>
    \* ---- Document and its minified dict ----
    document,       \* <<doc>>: the Document, or <<>>
    doc_at_call,    \* <<doc>>: the Document as it was when the last call started, or <<>>
    min_call,       \* <<call>>: the last call [op, drop_unmapped_ents, drop_terms, in_place], or <<>>
    min_input,      \* <<dict>>: the dict the last minify_json_dict was given, as it was then
    min_input_after, \* <<dict>>: the same dict object after the call
    min_result,     \* <<>>: no call yet, <<"KeyError">>, or <<"ok", returned>>
    from_dict_result, \* <<doc>>: what Document.from_dict made of the record of the Document, or <<>>
    \* ---- EntityFilterCleanupAction ----
    cleanup_action, \* <<fns>>: self.filter_fns of the EntityFilterCleanupAction, or <<>>
    drop_unmapped_namespaces, \* from_ent_namespaces of the provider the action was built from, or {}
    cleanup_doc_in, \* <<doc>>: the document as it was handed to cleanup, or <<>>
    cleanup_doc,    \* <<doc>>: the document after cleanup, or <<>>
    \* ---- CleanupStep ----
    cleanup_actions, \* <<actions>>: self.cleanup_actions of the CleanupStep, or <<>>
    run_docs_in,    \* <<docs>>: the documents as they were handed to _run, or <<>>
    run_docs,       \* <<docs>>: the documents _run returned, or <<>>
    failed_docs,    \* the failed documents _run returned, as their places in docs
    \* ---- CharSpan ----
    span_self,      \* <<cs>>: the CharSpan the methods are called on, or <<>>
    span_other,     \* <<cs>>: the CharSpan passed to the methods, or <<>>
    span_query,     \* the method called last, or "none"
    span_result,    \* <<b>>: what it returned, or <<>>
    opsin_step,         \* <<>> or <<the OpsinStep with the behaviour of its parser>>
    opsin_doc_in,       \* <<>> or <<the Document as it was given to the step>>
    opsin_doc,          \* <<>> or <<the Document after step.__call__(doc)>>
    opsin_calls,        \* the parseString calls of __call__, in order
    opsin_raised        \* the exception __call__ let through, "none" when it returned

sapVars == <<pc, docs_in, docs, lookup_cache, cache_pre, cache_misses, results,
             embed_calls, updates>>

entVars == <<ent_self, ent_other, ctor_via, ctor_args, ctor_status, overlap_result,
             complete_result>>

idVars == <<heap, ent_set, added>>

termVars == <<syn_term_to_synonym_terms, syn_terms_rev, term_log>>

curVars == <<cur_term, cur_args, cur_status, norm_result>>

\* the variables of the other data classes of kazu.data.data
gpaVars == <<gpa, gpa_query, gpa_result>>

secVars == <<sentence_spans_field, sec_writes, sec_read>>

docVars == <<document, doc_at_call, min_call, min_input, min_input_after, min_result,
             from_dict_result>>

clVars == <<cleanup_action, drop_unmapped_namespaces, cleanup_doc_in, cleanup_doc>>

stepVars == <<cleanup_actions, run_docs_in, run_docs, failed_docs>>

spanVars == <<span_self, span_other, span_query, span_result>>

opVars == <<opsin_step, opsin_doc_in, opsin_doc, opsin_calls, opsin_raised>>

dataVars == <<termVars, curVars, gpaVars, secVars, docVars, clVars, stepVars, spanVars, opVars>>

notTermVars == <<curVars, gpaVars, secVars, docVars, clVars, stepVars, spanVars, opVars>>

notCurVars == <<termVars, gpaVars, secVars, docVars, clVars, stepVars, spanVars, opVars>>

notGpaVars == <<termVars, curVars, secVars, docVars, clVars, stepVars, spanVars, opVars>>

notSecVars == <<termVars, curVars, gpaVars, docVars, clVars, stepVars, spanVars, opVars>>

notDocVars == <<termVars, curVars, gpaVars, secVars, clVars, stepVars, spanVars, opVars>>

notClVars == <<termVars, curVars, gpaVars, secVars, docVars, stepVars, spanVars, opVars>>

notStepVars == <<termVars, curVars, gpaVars, secVars, docVars, clVars, spanVars, opVars>>

notSpanVars == <<termVars, curVars, gpaVars, secVars, docVars, clVars, stepVars, opVars>>

notOpVars == <<termVars, curVars, gpaVars, secVars, docVars, clVars, stepVars, spanVars>>

vars == <<pc, docs_in, docs, lookup_cache, cache_pre, cache_misses, results,
          embed_calls, updates,
          ent_self, ent_other, ctor_via, ctor_args, ctor_status, overlap_result,
          complete_result,
          heap, ent_set, added,
          syn_term_to_synonym_terms, syn_terms_rev, term_log,
          cur_term, cur_args, cur_status, norm_result,
          gpa, gpa_query, gpa_result,
          sentence_spans_field, sec_writes, sec_read,
          document, doc_at_call, min_call, min_input, min_input_after, min_result,
          from_dict_result,
          cleanup_action, drop_unmapped_namespaces, cleanup_doc_in, cleanup_doc,
          cleanup_actions, run_docs_in, run_docs, failed_docs,
          span_self, span_other, span_query, span_result,
          opsin_step, opsin_doc_in, opsin_doc, opsin_calls, opsin_raised>>

-----------------------------------------------------------------------------
(* Bounds of the model *)

\* largest number of entities in the documents of one _run call
MaxBatch == 2
\* capacity the lookup cache is constructed with (lookup_cache_size)
lookup_cache_size == 2
\* largest use count of a cache entry the model follows
MaxUses == 2

\* process_all_entities as the step is constructed by default
process_all_entities == FALSE

\* a mapping an earlier, cheaper linking step gave an entity
DictMapping == [source |-> "dict", idx |-> "kb3", mapping_type |-> "direct"]

\* the detected entities that reach the step: surface string, entity class
\* and the mappings they already carry
EntityKinds ==
    { [match |-> "a", entity_class |-> "gene", mappings |-> <<>>],
      [match |-> "a", entity_class |-> "drug", mappings |-> <<>>],
      [match |-> "b", entity_class |-> "gene", mappings |-> <<>>],
      [match |-> "b", entity_class |-> "gene", mappings |-> <<DictMapping>>] }

\* embedding vectors (one coordinate) the embedding model can return
Vectors == {0, 1, 2}

\* the knowledge base table, in table order: iri column and the embedding
\* of each default_label
kb_ids == <<"kb1", "kb2", "kb3">>
kb_embeddings == <<2, 0, 0>>

-----------------------------------------------------------------------------
(* Helpers of the step *)

\* Mapping(source="x", idx=..., mapping_type="direct")
NewMapping(idx) == [source |-> "x", idx |-> idx, mapping_type |-> "direct"]

\* get_match_entity_class_hash: the cache key of an entity
get_match_entity_class_hash(ent) == <<ent.match, ent.entity_class>>

\* update_mappings: the mapping is added to the entity's mappings
update_mappings(ent, mapping) ==
    [ent EXCEPT !.mappings = Append(@, mapping)]

\* filter_entities_with_kb_mappings: positions of the entities to link
Candidates(ds) ==
    { i \in DOMAIN ds : process_all_entities \/ ds[i].mappings = <<>> }

\* the sequences over S of length at most n
RECURSIVE SeqsUpTo(_, _)
SeqsUpTo(S, n) ==
    IF n = 0 THEN {<<>>}
    ELSE LET shorter == SeqsUpTo(S, n - 1)
         IN  shorter \cup { Append(s, x) : s \in { t \in shorter : Len(t) = n - 1 }, x \in S }

\* increasing sequence of the members of a finite set of integers
RECURSIVE SortedSeq(_)
SortedSeq(S) ==
    IF S = {} THEN <<>>
    ELSE LET m == CHOOSE x \in S : \A y \in S : x <= y
         IN  <<m>> \o SortedSeq(S \ {m})

-----------------------------------------------------------------------------
(* cachetools.LFUCache: entries [key, value, uses] kept in the order of the *)
(* use counter; a lookup or a store counts as one use                       *)

CacheKeys(cache) == { cache[i].key : i \in DOMAIN cache }

CacheContains(cache, k) == k \in CacheKeys(cache)

CacheIndex(cache, k) == CHOOSE i \in DOMAIN cache : cache[i].key = k

CacheValue(cache, k) == cache[CacheIndex(cache, k)].value

CacheUses(cache, k) == cache[CacheIndex(cache, k)].uses

RemoveAt(s, i) == SubSeq(s, 1, i - 1) \o SubSeq(s, i + 1, Len(s))

\* a mis-chosen victim: the entry with the most uses
MostUsedIndex(cache) ==
    CHOOSE i \in DOMAIN cache :
        /\ \A j \in DOMAIN cache : cache[j].uses <= cache[i].uses
        /\ \A j \in DOMAIN cache : cache[j].uses = cache[i].uses => i <= j

\* LFUCache.popitem: the victim is the first entry with the fewest uses
LFUVictimIndex(cache) ==
    CHOOSE i \in DOMAIN cache :
        /\ \A j \in DOMAIN cache : cache[i].uses <= cache[j].uses
        /\ \A j \in DOMAIN cache : cache[j].uses = cache[i].uses => i <= j

LFUPopItem(cache) == RemoveAt(cache, LFUVictimIndex(cache))

\* LFUCache.__getitem__: one more use of the entry
LFUGetItem(cache, k) ==
    [cache EXCEPT ![CacheIndex(cache, k)].uses = @ + 1]

\* Cache.__setitem__: make room while the cache is full, then store
RECURSIVE MakeRoom(_, _)
MakeRoom(cache, maxsize) ==
    IF Len(cache) + 1 > maxsize /\ Len(cache) > 0
    THEN MakeRoom(LFUPopItem(cache), maxsize)
    ELSE cache

\* a store into a plain dict: no entry is dropped to make room
SetItemUnbounded(cache, k, v, maxsize) ==
    IF CacheContains(cache, k)
    THEN [cache EXCEPT ![CacheIndex(cache, k)].value = v,
                       ![CacheIndex(cache, k)].uses = @ + 1]
    ELSE Append(cache, [key |-> k, value |-> v, uses |-> 1])

LFUSetItem(cache, k, v, maxsize) ==
    IF CacheContains(cache, k)
    THEN [cache EXCEPT ![CacheIndex(cache, k)].value = v,
                       ![CacheIndex(cache, k)].uses = @ + 1]
    ELSE Append(MakeRoom(cache, maxsize), [key |-> k, value |-> v, uses |-> 1])

-----------------------------------------------------------------------------
(* SapBertForEntityLinkingStep *)

\* a store that does not look whether the key is present
UpdateAlways(cache, ent, mapping) ==
    LFUSetItem(cache, get_match_entity_class_hash(ent), mapping, lookup_cache_size)

\* update_lookup_cache
update_lookup_cache(cache, ent, mapping) ==
    LET hash_val == get_match_entity_class_hash(ent)
    IN  IF ~CacheContains(cache, hash_val)
        THEN LFUSetItem(cache, hash_val, mapping, lookup_cache_size)
        ELSE cache

\* a check that also reports its hits as misses
RECURSIVE CheckHitsAlsoMissed(_, _, _, _)
CheckHitsAlsoMissed(cache, ds, todo, misses) ==
    IF todo = <<>> THEN [cache |-> cache, docs |-> ds, misses |-> misses]
    ELSE LET i == Head(todo)
             hash_val == get_match_entity_class_hash(ds[i])
         IN  IF ~CacheContains(cache, hash_val)
             THEN CheckHitsAlsoMissed(cache, ds, Tail(todo), Append(misses, i))
             ELSE LET got == LFUGetItem(cache, hash_val)
                      maybe_mapping == CacheValue(got, hash_val)
                  IN  CheckHitsAlsoMissed(
                          got,
                          [ds EXCEPT ![i] = update_mappings(@, maybe_mapping)],
                          Tail(todo), Append(misses, i))

\* check_lookup_cache, over the candidate positions `todo` in order; the
\* result holds the cache (its use counts), the entities and the misses
RECURSIVE check_lookup_cache(_, _, _, _)
check_lookup_cache(cache, ds, todo, misses) ==
    IF todo = <<>> THEN [cache |-> cache, docs |-> ds, misses |-> misses]
    ELSE LET i == Head(todo)
             hash_val == get_match_entity_class_hash(ds[i])
         IN  IF ~CacheContains(cache, hash_val)
             THEN check_lookup_cache(cache, ds, Tail(todo), Append(misses, i))
             ELSE LET got == LFUGetItem(cache, hash_val)
                      maybe_mapping == CacheValue(got, hash_val)
                  IN  check_lookup_cache(
                          got,
                          [ds EXCEPT ![i] = update_mappings(@, maybe_mapping)],
                          Tail(todo), misses)

\* cdist(result, kb_embeddings): the distance to every row of the table
Abs(x) == IF x < 0 THEN -x ELSE x
cdist(result, kb) == [r \in DOMAIN kb |-> Abs(result - kb[r])]

\* the last row at minimum distance
ArgMinLast(dist) ==
    CHOOSE r \in DOMAIN dist :
        /\ \A q \in DOMAIN dist : dist[r] <= dist[q]
        /\ \A q \in DOMAIN dist : dist[q] = dist[r] => q <= r

\* np.argmin: the first row at minimum distance
argmin(dist) ==
    CHOOSE r \in DOMAIN dist :
        /\ \A q \in DOMAIN dist : dist[r] <= dist[q]
        /\ \A q \in DOMAIN dist : dist[q] = dist[r] => r <= q

\* the loop of _run over the embedding results
RECURSIVE link_misses(_, _, _, _, _, _)
link_misses(cache, ds, misses, vecs, i, log) ==
    IF i > Len(misses) THEN [cache |-> cache, docs |-> ds, log |-> log]
    ELSE LET dist == cdist(vecs[i], kb_embeddings)
             nn_index == argmin(dist)
             pos == misses[i]
             new_mapping == NewMapping(kb_ids[nn_index])
             entity == update_mappings(ds[pos], new_mapping)
             after == update_lookup_cache(cache, entity, new_mapping)
         IN  link_misses(after, [ds EXCEPT ![pos] = entity], misses, vecs, i + 1,
                         Append(log, [mapping |-> new_mapping,
                                      key |-> get_match_entity_class_hash(entity),
                                      after |-> after,
                                      before |-> cache]))

-----------------------------------------------------------------------------------------------------------------------------------------------------
(* CharSpan and Entity (kazu.data.data) *)

\* largest character position of the model; positions start at -1
MaxPos == 1
\* largest number of spans given to one construction
MaxSpans == 2

Positions == -1..MaxPos

\* CharSpan(start, end) of a half-open interval
CharSpans == { cs \in [start : Positions, end : Positions] : cs.start <= cs.end }

\* the text of the section the entities are detected in
SectionText == <<"a", "B", "c">>

\* text[start:end] as Python slices a string
SliceIndex(i, n) ==
    IF i < 0 THEN (IF i + n < 0 THEN 0 ELSE i + n)
    ELSE (IF i > n THEN n ELSE i)

Slice(text, start, end) ==
    LET lo == SliceIndex(start, Len(text))
        hi == SliceIndex(end, Len(text))
    IN  IF lo >= hi THEN <<>> ELSE SubSeq(text, lo + 1, hi)

\* StringNormalizer.normalize: letters are upper-cased
UpperOf(c) ==
    CASE c = "a" -> "A"
      [] c = "c" -> "C"
      [] OTHER -> c

normalize(match, entity_class) == [i \in DOMAIN match |-> UpperOf(match[i])]

\* CharSpan.is_partially_overlapped
CharSpanPartiallyOverlapped(self, other) ==
    \/ (other.start <= self.start /\ self.start <= other.end)
    \/ (other.start <= self.end /\ self.end <= other.end)

\* a loop that starts from earliest_start = 0: no error for an empty span set
RECURSIVE StartsAndEndsFromZero(_, _, _)
StartsAndEndsFromZero(spans, earliest_start, latest_end) ==
    IF spans = {}
    THEN [error |-> FALSE,
          start |-> IF earliest_start = <<>> THEN 0 ELSE earliest_start[1],
          end |-> latest_end]
    ELSE LET span == CHOOSE cs \in spans : TRUE
             es == IF earliest_start = <<>> \/ span.start < earliest_start[1]
                   THEN <<span.start>> ELSE earliest_start
             le == IF span.end > latest_end THEN span.end ELSE latest_end
         IN  StartsAndEndsFromZero(spans \ {span}, es, le)

\* Entity.calc_starts_and_ends: the loop over self.spans; earliest_start is
\* <<>> while it is still inf, and latest_end starts from 0
RECURSIVE calc_starts_and_ends(_, _, _)
calc_starts_and_ends(spans, earliest_start, latest_end) ==
    IF spans = {}
    THEN IF earliest_start = <<>>
         THEN [error |-> TRUE, start |-> 0, end |-> 0]
         ELSE [error |-> FALSE, start |-> earliest_start[1], end |-> latest_end]
    ELSE LET span == CHOOSE cs \in spans : TRUE
             es == IF earliest_start = <<>> \/ span.start < earliest_start[1]
                   THEN <<span.start>> ELSE earliest_start
             le == IF span.end > latest_end THEN span.end ELSE latest_end
         IN  calc_starts_and_ends(spans \ {span}, es, le)

\* Entity(...): the dataclass constructor with __post_init__; <<>> when
\* __post_init__ raises
NewEntity(match, entity_class, spans, namespace) ==
    LET se == calc_starts_and_ends(spans, <<>>, 0)
    IN  IF se.error THEN <<>>
        ELSE << [match |-> match,
                 entity_class |-> entity_class,
                 mappings |-> {},
                 start |-> se.start,
                 end |-> se.end,
                 spans |-> spans,
                 namespace |-> namespace,
                 match_norm |-> normalize(match, entity_class)] >>

\* Entity.from_spans with join_str = ""
RECURSIVE text_pieces(_, _)
text_pieces(spans, text) ==
    IF spans = <<>> THEN <<>>
    ELSE Slice(text, Head(spans).start, Head(spans).end) \o text_pieces(Tail(spans), text)

from_spans(spans, text, entity_class, namespace) ==
    NewEntity(text_pieces(spans, text), entity_class,
              { spans[i] : i \in DOMAIN spans }, namespace)

\* Entity.load_contiguous_entity
load_contiguous_entity(start, end, match, entity_class, namespace) ==
    NewEntity(match, entity_class, {[start |-> start, end |-> end]}, namespace)

\* an overlap test over every pair of spans
AnySpansPartiallyOverlapped(self, other) ==
    \E cs \in self.spans : \E ocs \in other.spans : CharSpanPartiallyOverlapped(cs, ocs)

\* Entity.is_partially_overlapped
is_partially_overlapped(self, other) ==
    IF Cardinality(self.spans) = 1 /\ Cardinality(other.spans) = 1
    THEN LET charspan == CHOOSE cs \in self.spans : TRUE
             other_charspan == CHOOSE cs \in other.spans : TRUE
         IN  CharSpanPartiallyOverlapped(charspan, other_charspan)
    ELSE FALSE

\* CharSpan.is_completely_overlapped
CharSpanCompletelyOverlapped(self, other) ==
    self.start >= other.start /\ self.end <= other.end

\* a test that wants every span of self inside every span of other
InsideEverySpan(self, other) ==
    \A charspan \in self.spans : \A other_charspan \in other.spans :
        CharSpanCompletelyOverlapped(charspan, other_charspan)

\* Entity.is_completely_overlapped: the inner loop breaks at the first span
\* of other that holds charspan, and its else branch returns False
is_completely_overlapped(self, other) ==
    \A charspan \in self.spans :
        \E other_charspan \in other.spans :
            CharSpanCompletelyOverlapped(charspan, other_charspan)

\* the slot a construction fills: ent_self first, then ent_other
FreeSlot == IF ent_self = <<>> THEN "self" ELSE "other"

\* the slots after a construction: the new instance in the free slot, or
\* no change when the construction raised
SlotsAfter(made) ==
    IF made = <<>> THEN <<ent_self, ent_other>>
    ELSE IF FreeSlot = "self" THEN <<made, ent_other>>
    ELSE <<ent_self, made>>

StatusAfter(made) == IF made = <<>> THEN "ValueError" ELSE "ok"

\* Entity(match=..., entity_class=..., spans=frozenset(...), namespace=...)
Construct ==
    /\ ent_other = <<>>
    /\ \E spans \in { S \in SUBSET CharSpans : Cardinality(S) <= MaxSpans } :
        LET made == NewEntity(<<"a">>, "gene", spans, "ner")
        IN  /\ ent_self' = SlotsAfter(made)[1]
            /\ ent_other' = SlotsAfter(made)[2]
            /\ ctor_status' = StatusAfter(made)
            /\ ctor_args' = spans
            /\ ctor_via' = "init"
    /\ UNCHANGED <<overlap_result, complete_result, sapVars, idVars, dataVars>>

\* Entity.from_spans(spans, text, ...)
FromSpans ==
    /\ ent_other = <<>>
    /\ \E spans \in SeqsUpTo(CharSpans, MaxSpans) :
        LET made == from_spans(spans, SectionText, "gene", "ner")
        IN  /\ ent_self' = SlotsAfter(made)[1]
            /\ ent_other' = SlotsAfter(made)[2]
            /\ ctor_status' = StatusAfter(made)
            /\ ctor_args' = { spans[i] : i \in DOMAIN spans }
            /\ ctor_via' = "from_spans"
    /\ UNCHANGED <<overlap_result, complete_result, sapVars, idVars, dataVars>>

\* Entity.load_contiguous_entity(start, end, ...)
LoadContiguous ==
    /\ ent_other = <<>>
    /\ \E cs \in CharSpans :
        LET made == load_contiguous_entity(cs.start, cs.end, <<"a">>, "gene", "ner")
        IN  /\ ent_self' = SlotsAfter(made)[1]
            /\ ent_other' = SlotsAfter(made)[2]
            /\ ctor_status' = StatusAfter(made)
            /\ ctor_args' = {cs}
            /\ ctor_via' = "load_contiguous_entity"
    /\ UNCHANGED <<overlap_result, complete_result, sapVars, idVars, dataVars>>

\* ent_self.is_partially_overlapped(ent_other)
QueryPartiallyOverlapped ==
    /\ ent_self # <<>> /\ ent_other # <<>>
    /\ overlap_result = <<>> /\ complete_result = <<>>
    /\ overlap_result' = <<is_partially_overlapped(ent_self[1], ent_other[1])>>
    /\ UNCHANGED <<ent_self, ent_other, ctor_via, ctor_args, ctor_status, complete_result>>
    /\ UNCHANGED <<sapVars, idVars, dataVars>>

\* ent_self.is_completely_overlapped(ent_other)
QueryCompletelyOverlapped ==
    /\ ent_self # <<>> /\ ent_other # <<>>
    /\ overlap_result = <<>> /\ complete_result = <<>>
    /\ complete_result' = <<is_completely_overlapped(ent_self[1], ent_other[1])>>
    /\ UNCHANGED <<ent_self, ent_other, ctor_via, ctor_args, ctor_status, overlap_result>>
    /\ UNCHANGED <<sapVars, idVars, dataVars>>

\* both entities are dropped
Discard ==
    /\ ent_self # <<>>
    /\ ent_self' = <<>>
    /\ ent_other' = <<>>
    /\ ctor_via' = "none"
    /\ ctor_args' = {}
    /\ ctor_status' = "none"
    /\ overlap_result' = <<>>
    /\ complete_result' = <<>>
    /\ UNCHANGED <<sapVars, idVars, dataVars>>

-----------------------------------------------------------------------------
(* Entity identity: __hash__, __eq__ and a set of entities *)

\* largest number of live Entity instances
MaxInstances == 2

\* the mappings that are added to the entities
SomeMappings == { DictMapping, NewMapping("kb1") }

\* an equality by field values, as a dataclass would generate it
EqByFields(self, other) == heap[self] = heap[other]

\* Entity.__eq__: id(self) == id(other)
EntityEq(self, other) == self = other

\* a hash of the field values
HashByFields(self) == heap[self]

\* Entity.__hash__: id(self)
EntityHash(self) == self

\* `ent in entities` for a Python set: an entry in the bucket of the hash
\* that is equal to ent
SetContains(entries, ref) ==
    \E en \in entries : en.hash = EntityHash(ref) /\ EntityEq(en.ref, ref)

\* a new Entity instance is created, with the fields of any other
Allocate ==
    /\ Len(heap) < MaxInstances
    /\ \E end \in {0, 1} :
        LET made == load_contiguous_entity(0, end, <<"a">>, "gene", "ner")
        IN  heap' = heap \o made
    /\ UNCHANGED <<ent_set, added, sapVars, entVars, dataVars>>

\* entities.add(ent)
SetAdd ==
    /\ \E ref \in DOMAIN heap :
        /\ ref \notin added
        /\ ent_set' = IF SetContains(ent_set, ref) THEN ent_set
                      ELSE ent_set \cup {[ref |-> ref, hash |-> EntityHash(ref)]}
        /\ added' = added \cup {ref}
    /\ UNCHANGED <<heap, sapVars, entVars, dataVars>>

\* Entity.add_mapping
AddMapping ==
    /\ \E ref \in DOMAIN heap : \E mapping \in SomeMappings :
        /\ mapping \notin heap[ref].mappings
        /\ heap' = [heap EXCEPT ![ref].mappings = @ \cup {mapping}]
    /\ UNCHANGED <<ent_set, added, sapVars, entVars, dataVars>>

-----------------------------------------------------------------------------
(* _run *)

MaxUsesOf(cache) ==
    IF cache = <<>> THEN 0
    ELSE LET i == CHOOSE i \in DOMAIN cache : \A j \in DOMAIN cache : cache[j].uses <= cache[i].uses
         IN  cache[i].uses

\* an embedding call made whatever the number of misses
EmbedAlways(entities) == TRUE

\* `if len(entities) > 0:` the embedding call is made only for misses
ShouldEmbed(entities) == Len(entities) > 0

\* a failure of the embedding call swallowed, the misses linked to a zero vector
FailureSwallowed(chk) ==
    link_misses(chk.cache, chk.docs, chk.misses,
                [j \in 1..Len(chk.misses) |-> 0], 1, <<>>)

\* what _run leaves behind when trainer.predict raises: the work of
\* check_lookup_cache, and nothing of the loop that follows the call
AtEmbedFailure(chk) ==
    [cache |-> chk.cache, docs |-> chk.docs, log |-> <<>>]

\* lines 143-147 of _run: the candidates and the cache check
CheckPhase ==
    check_lookup_cache(lookup_cache, docs, SortedSeq(Candidates(docs)), <<>>)

\* the step as constructed, with an empty lookup cache and no documents, and
\* no Entity constructed yet
Init ==
    /\ pc = "idle"
    /\ docs_in = <<>>
    /\ docs = <<>>
    /\ lookup_cache = <<>>
    /\ cache_pre = <<>>
    /\ cache_misses = <<>>
    /\ results = <<>>
    /\ embed_calls = 0
    /\ updates = <<>>
    /\ ent_self = <<>>
    /\ ent_other = <<>>
    /\ ctor_via = "none"
    /\ ctor_args = {}
    /\ ctor_status = "none"
    /\ overlap_result = <<>>
    /\ complete_result = <<>>
    /\ heap = <<>>
    /\ ent_set = {}
    /\ added = {}
    /\ syn_term_to_synonym_terms = <<>>
    /\ syn_terms_rev = <<>>
    /\ term_log = <<>>
    /\ cur_term = <<>>
    /\ cur_args = <<>>
    /\ cur_status = "none"
    /\ norm_result = <<>>
    /\ gpa = <<>>
    /\ gpa_query = "none"
    /\ gpa_result = <<>>
    /\ sentence_spans_field = <<>>
    /\ sec_writes = <<>>
    /\ sec_read = <<>>
    /\ document = <<>>
    /\ doc_at_call = <<>>
    /\ min_call = <<>>
    /\ min_input = <<>>
    /\ min_input_after = <<>>
    /\ min_result = <<>>
    /\ from_dict_result = <<>>
    /\ cleanup_action = <<>>
    /\ drop_unmapped_namespaces = {}
    /\ cleanup_doc_in = <<>>
    /\ cleanup_doc = <<>>
    /\ cleanup_actions = <<>>
    /\ run_docs_in = <<>>
    /\ run_docs = <<>>
    /\ failed_docs = <<>>
    /\ span_self = <<>>
    /\ span_other = <<>>
    /\ span_query = "none"
    /\ span_result = <<>>
    /\ opsin_step = <<>>
    /\ opsin_doc_in = <<>>
    /\ opsin_doc = <<>>
    /\ opsin_calls = <<>>
    /\ opsin_raised = "none"

\* the pipeline hands the entities of a batch of documents to the step
NewBatch ==
    /\ pc = "idle"
    /\ \E batch \in SeqsUpTo(EntityKinds, MaxBatch) : docs_in' = batch /\ docs' = batch
    /\ pc' = "ready"
    /\ UNCHANGED <<lookup_cache, cache_pre, cache_misses, results, embed_calls, updates>>
    /\ UNCHANGED <<entVars, idVars, dataVars>>

\* _run without an embedding call
RunAllHits ==
    /\ pc = "ready"
    /\ LET chk == CheckPhase
       IN  /\ ~ShouldEmbed(chk.misses)
           /\ MaxUsesOf(chk.cache) <= MaxUses
           /\ docs' = chk.docs
           /\ lookup_cache' = chk.cache
           /\ cache_misses' = chk.misses
    /\ cache_pre' = lookup_cache
    /\ results' = <<>>
    /\ embed_calls' = 0
    /\ updates' = <<>>
    /\ pc' = "returned"
    /\ UNCHANGED <<docs_in, entVars, idVars, dataVars>>

\* _run with an embedding call that returns one vector per miss
RunLink ==
    /\ pc = "ready"
    /\ LET chk == CheckPhase
       IN  /\ ShouldEmbed(chk.misses)
           /\ MaxUsesOf(chk.cache) <= MaxUses
           /\ \E vecs \in [1..Len(chk.misses) -> Vectors] :
                LET done == link_misses(chk.cache, chk.docs, chk.misses, vecs, 1, <<>>)
                IN  /\ docs' = done.docs
                    /\ lookup_cache' = done.cache
                    /\ updates' = done.log
                    /\ results' = vecs
           /\ cache_misses' = chk.misses
    /\ cache_pre' = lookup_cache
    /\ embed_calls' = 1
    /\ pc' = "returned"
    /\ UNCHANGED <<docs_in, entVars, idVars, dataVars>>

\* _run with an embedding call that raises
RunEmbedFails ==
    /\ pc = "ready"
    /\ LET chk == CheckPhase
       IN  /\ ShouldEmbed(chk.misses)
           /\ MaxUsesOf(chk.cache) <= MaxUses
           /\ LET left == AtEmbedFailure(chk)
              IN  /\ docs' = left.docs
                  /\ lookup_cache' = left.cache
                  /\ updates' = left.log
           /\ cache_misses' = chk.misses
    /\ cache_pre' = lookup_cache
    /\ results' = <<>>
    /\ embed_calls' = 1
    /\ pc' = "raised"
    /\ UNCHANGED <<docs_in, entVars, idVars, dataVars>>

\* the documents leave the step
Release ==
    /\ pc \in {"returned", "raised"}
    /\ pc' = "idle"
    /\ docs_in' = <<>>
    /\ docs' = <<>>
    /\ cache_pre' = <<>>
    /\ cache_misses' = <<>>
    /\ results' = <<>>
    /\ embed_calls' = 0
    /\ updates' = <<>>
    /\ UNCHANGED <<lookup_cache, entVars, idVars, dataVars>>

SapNext == NewBatch \/ RunAllHits \/ RunLink \/ RunEmbedFails \/ Release

SpecSapBert == Init /\ [][SapNext]_vars

EntNext ==
    Construct \/ FromSpans \/ LoadContiguous \/ QueryPartiallyOverlapped
        \/ QueryCompletelyOverlapped \/ Discard

SpecEntity == Init /\ [][EntNext]_vars

IdNext == Allocate \/ SetAdd \/ AddMapping

SpecIdentity == Init /\ [][IdNext]_vars

-----------------------------------------------------------------------------
(* SynonymTermWithMetrics and Entity.update_terms *)

\* largest number of terms passed to update_terms in the life of an Entity
MaxTermLog == 2

\* a metric that was not scored
None == "None"

\* the scored terms the linking passes produce: skey stands for the fields
\* (terms, term_norm, parser_name, is_symbolic, associated_id_sets)
SynonymTermsWithMetrics ==
    { t \in [skey : {"k1", "k2"},
             mapping_types : {"m1", "m2"},
             search_score : {None, "0.0", "1.0"},
             embed_score : {None, "1.0"},
             bool_score : {None, "1.0"},
             exact_match : {None, "False"}] :
        t.skey = "k2" => t.mapping_types = "m1" }

\* the generated __hash__: the fields with compare=True and not hash=False
TermHash(t) == t.skey

\* an equality that leaves mapping_types out, as the hash does
TermEqByHashedFields(a, b) == a.skey = b.skey

\* the generated __eq__: the fields with compare=True, mapping_types among them
TermEq(a, b) == a.skey = b.skey /\ a.mapping_types = b.mapping_types

\* dict lookup: the positions of the entries whose key has the hash of t
\* and is equal to t (at most one)
DictFind(d, t) ==
    { i \in DOMAIN d : TermHash(d[i].key) = TermHash(t) /\ TermEq(d[i].key, t) }

\* d[t] = v: the value of the entry with an equal key is replaced and its
\* key object stays; a new entry goes to the end
DictSet(d, t, v) ==
    IF DictFind(d, t) = {} THEN Append(d, [key |-> t, value |-> v])
    ELSE [d EXCEPT ![CHOOSE i \in DictFind(d, t) : TRUE].value = v]

\* a merge that takes every metric of the incoming term, null or not
ReplaceMetrics(self, term) ==
    [self EXCEPT !.search_score = term.search_score,
                 !.embed_score = term.embed_score,
                 !.bool_score = term.bool_score,
                 !.exact_match = term.exact_match]

\* SynonymTermWithMetrics.merge_metrics
merge_metrics(self, term) ==
    [self EXCEPT !.search_score = IF term.search_score # None THEN term.search_score ELSE @,
                 !.embed_score = IF term.embed_score # None THEN term.embed_score ELSE @,
                 !.bool_score = IF term.bool_score # None THEN term.bool_score ELSE @,
                 !.exact_match = IF term.exact_match # None THEN term.exact_match ELSE @]

\* Entity.update_terms: the loop over terms
RECURSIVE update_terms(_, _)
update_terms(d, terms) ==
    IF terms = <<>> THEN d
    ELSE LET term == Head(terms)
             found == DictFind(d, term)
         IN  IF found # {}
             THEN LET existing_term == d[CHOOSE i \in found : TRUE].value
                      new_term == merge_metrics(existing_term, term)
                  IN  update_terms(DictSet(d, new_term, new_term), Tail(terms))
             ELSE update_terms(DictSet(d, term, term), Tail(terms))

Reverse(q) == [i \in DOMAIN q |-> q[Len(q) + 1 - i]]

\* entity.update_terms(terms), and the same terms in reverse for the second
\* Entity
UpdateTerms ==
    /\ \E terms \in SeqsUpTo(SynonymTermsWithMetrics, MaxTermLog - Len(term_log)) :
        /\ terms # <<>>
        /\ syn_term_to_synonym_terms' = update_terms(syn_term_to_synonym_terms, terms)
        /\ term_log' = term_log \o terms
        /\ syn_terms_rev' = update_terms(<<>>, Reverse(term_log \o terms))
    /\ UNCHANGED <<sapVars, entVars, idVars, notTermVars>>

TermNext == UpdateTerms

SpecTerms == Init /\ [][TermNext]_vars

-----------------------------------------------------------------------------
(* MentionForm and CuratedTerm *)

\* largest number of original forms given to one CuratedTerm
MaxOriginalForms == 2
\* largest number of alternative forms given to one CuratedTerm
MaxAlternativeForms == 1

\* MentionConfidence
HIGHLY_LIKELY == 100
POSSIBLE == 10
IGNORE == 0

\* the forms the curations are made of
MentionForms ==
    { f \in [string : {<<"a">>, <<"A">>, <<"c">>},
             case_sensitive : BOOLEAN,
             mention_confidence : {HIGHLY_LIKELY, POSSIBLE, IGNORE}] :
        f.string = <<"c">> => f.case_sensitive /\ f.mention_confidence = HIGHLY_LIKELY }

\* CuratedTermBehaviour
CuratedTermBehaviours ==
    {"ADD_FOR_NER_AND_LINKING", "ADD_FOR_LINKING_ONLY", "DROP_SYNONYM_TERM_FOR_LINKING"}

\* str.lower
LowerOf(c) ==
    CASE c = "A" -> "a"
      [] c = "B" -> "b"
      [] c = "C" -> "c"
      [] OTHER -> c

Lower(str) == [i \in DOMAIN str |-> LowerOf(str[i])]

Min(S) == CHOOSE x \in S : \A y \in S : x <= y

\* CuratedTerm.active_ner_forms
active_ner_forms(ct) ==
    IF ct.behaviour = "ADD_FOR_NER_AND_LINKING"
    THEN { form \in ct.original_forms \cup ct.alternative_forms :
             form.mention_confidence # IGNORE }
    ELSE {}

\* cs_forms of __post_init__: confidences per exact string
cs_forms(ct) ==
    LET forms == { f \in active_ner_forms(ct) : f.case_sensitive }
    IN  [str \in { f.string : f \in forms } |->
            { f.mention_confidence : f \in { g \in forms : g.string = str } }]

\* ci_forms of __post_init__: confidences per lowercased string
ci_forms(ct) ==
    LET forms == { f \in active_ner_forms(ct) : ~f.case_sensitive }
    IN  [str \in { Lower(f.string) : f \in forms } |->
            { f.mention_confidence : f \in { g \in forms : Lower(g.string) = str } }]

\* dict.get(key, default)
DictGet(d, key, default) == IF key \in DOMAIN d THEN d[key] ELSE default

\* CuratedTerm.__post_init__: the outcome of the construction; the second
\* loop runs over ci_forms.items() and looks the key up in ci_forms
post_init(ct) ==
    IF Cardinality(ct.original_forms) = 0 THEN "ValueError"
    ELSE IF \E cs_form \in DOMAIN ci_forms(ct) :
                LET cs_confidences == ci_forms(ct)[cs_form]
                    ci_confidences == DictGet(ci_forms(ct), Lower(cs_form), {POSSIBLE})
                IN  Min(ci_confidences) < Min(cs_confidences)
         THEN "RuntimeError"
         ELSE "ok"

\* the normalized strings of the original and of the alternative forms
NormsOfAllForms(ct, entity_class) ==
    { normalize(form.string, entity_class) :
        form \in ct.original_forms \cup ct.alternative_forms }

\* the set norms of term_norm_for_linking
norms_for_linking(ct, entity_class) ==
    { normalize(form.string, entity_class) : form \in ct.original_forms }

\* CuratedTerm.term_norm_for_linking: <<"ok", term_norm>> or <<"RuntimeError">>
term_norm_for_linking(ct, entity_class) ==
    LET norms == norms_for_linking(ct, entity_class)
    IN  IF Cardinality(norms) = 1
        THEN <<"ok", CHOOSE term_norm \in norms : TRUE>>
        ELSE <<"RuntimeError">>

\* CuratedTerm(original_forms=..., behaviour=..., alternative_forms=...)
ConstructCuratedTerm ==
    /\ cur_status = "none"
    /\ \E original_forms \in { S \in SUBSET MentionForms : Cardinality(S) <= MaxOriginalForms } :
       \E alternative_forms \in { S \in SUBSET MentionForms : Cardinality(S) <= MaxAlternativeForms } :
       \E behaviour \in CuratedTermBehaviours :
        LET ct == [behaviour |-> behaviour,
                   original_forms |-> original_forms,
                   alternative_forms |-> alternative_forms]
        IN  /\ cur_args' = <<ct>>
            /\ cur_status' = post_init(ct)
            /\ cur_term' = IF post_init(ct) = "ok" THEN <<ct>> ELSE <<>>
    /\ UNCHANGED norm_result
    /\ UNCHANGED <<sapVars, entVars, idVars, notCurVars>>

\* cur_term.term_norm_for_linking(entity_class)
TermNormForLinking ==
    /\ cur_term # <<>>
    /\ norm_result = <<>>
    /\ \E entity_class \in {"gene", "drug"} :
        norm_result' = term_norm_for_linking(cur_term[1], entity_class)
    /\ UNCHANGED <<cur_term, cur_args, cur_status>>
    /\ UNCHANGED <<sapVars, entVars, idVars, notCurVars>>

\* the CuratedTerm is dropped
DiscardCuratedTerm ==
    /\ cur_status # "none"
    /\ cur_term' = <<>>
    /\ cur_args' = <<>>
    /\ cur_status' = "none"
    /\ norm_result' = <<>>
    /\ UNCHANGED <<sapVars, entVars, idVars, notCurVars>>

CurNext == ConstructCuratedTerm \/ TermNormForLinking \/ DiscardCuratedTerm

SpecCurated == Init /\ [][CurNext]_vars

-----------------------------------------------------------------------------
(* ParserAction and GlobalParserActions *)

\* largest number of actions given to one GlobalParserActions
MaxActions == 2

\* the parser names that are asked for
ParserNames == {"A", "B", "C"}

\* the keys of a parser_to_target_id_mappings dict, in the order of the dict
ParserKeyLists == { <<"A">>, <<"B">>, <<"A", "B">>, <<"B", "A">> }

\* the ParserAction instances: a dict as entries [key, value] in order
ParserActions ==
    { [behaviour |-> "DROP_IDS_FROM_PARSER",
       parser_to_target_id_mappings |-> [i \in DOMAIN ks |-> [key |-> ks[i], value |-> ids]]] :
        ks \in ParserKeyLists, ids \in {{"id1"}, {"id2"}} }

\* dict.keys()
DictKeys(d) == [i \in DOMAIN d |-> d[i].key]

\* defaultdict(list)[parser_name].append(action)
DefaultDictAppend(d, parser_name, action) ==
    IF \E i \in DOMAIN d : d[i].key = parser_name
    THEN [i \in DOMAIN d |->
            IF d[i].key = parser_name
            THEN [key |-> d[i].key, value |-> Append(d[i].value, action)]
            ELSE d[i]]
    ELSE Append(d, [key |-> parser_name, value |-> <<action>>])

\* the inner loop of __post_init__, over the keys of one action
RECURSIVE index_action(_, _, _)
index_action(d, action, keys) ==
    IF keys = <<>> THEN d
    ELSE index_action(DefaultDictAppend(d, Head(keys), action), action, Tail(keys))

\* GlobalParserActions.__post_init__: the loop over self.actions
RECURSIVE index_actions(_, _)
index_actions(d, actions) ==
    IF actions = <<>> THEN d
    ELSE index_actions(
             index_action(d, Head(actions), DictKeys(Head(actions).parser_to_target_id_mappings)),
             Tail(actions))

\* a lookup by subscript: a defaultdict makes an entry for a missing key
BehaviourBySubscript(d, parser_name) ==
    IF \E i \in DOMAIN d : d[i].key = parser_name
    THEN [yielded |-> d[CHOOSE i \in DOMAIN d : d[i].key = parser_name].value, index |-> d]
    ELSE [yielded |-> <<>>, index |-> Append(d, [key |-> parser_name, value |-> <<>>])]

\* GlobalParserActions.parser_behaviour: what is yielded, and the index
\* after the call; .get(parser_name, []) makes no entry
parser_behaviour(d, parser_name) ==
    IF \E i \in DOMAIN d : d[i].key = parser_name
    THEN [yielded |-> d[CHOOSE i \in DOMAIN d : d[i].key = parser_name].value, index |-> d]
    ELSE [yielded |-> <<>>, index |-> d]

\* GlobalParserActions(actions=...)
ConstructGlobalParserActions ==
    /\ gpa = <<>>
    /\ \E actions \in SeqsUpTo(ParserActions, MaxActions) :
        gpa' = << [actions |-> actions,
                   parser_name_to_action |-> index_actions(<<>>, actions)] >>
    /\ UNCHANGED <<gpa_query, gpa_result>>
    /\ UNCHANGED <<sapVars, entVars, idVars, notGpaVars>>

\* list(gpa.parser_behaviour(parser_name))
ParserBehaviourCall ==
    /\ gpa # <<>>
    /\ gpa_result = <<>>
    /\ \E parser_name \in ParserNames :
        LET got == parser_behaviour(gpa[1].parser_name_to_action, parser_name)
        IN  /\ gpa_query' = parser_name
            /\ gpa_result' = <<got.yielded>>
            /\ gpa' = << [actions |-> gpa[1].actions,
                          parser_name_to_action |-> got.index] >>
    /\ UNCHANGED <<sapVars, entVars, idVars, notGpaVars>>

\* the GlobalParserActions is dropped
DiscardGlobalParserActions ==
    /\ gpa # <<>>
    /\ gpa' = <<>>
    /\ gpa_query' = "none"
    /\ gpa_result' = <<>>
    /\ UNCHANGED <<sapVars, entVars, idVars, notGpaVars>>

GpaNext ==
    ConstructGlobalParserActions \/ ParserBehaviourCall \/ DiscardGlobalParserActions

SpecParserActions == Init /\ [][GpaNext]_vars

-----------------------------------------------------------------------------
(* Section.sentence_spans *)

\* largest number of writes of sentence_spans to one Section
MaxWrites == 3
\* largest number of spans in one write
MaxSentSpans == 2

\* the sentence spans that are written
SentenceSpans == { [start |-> 0, end |-> 1], [start |-> 1, end |-> 1] }

\* a setter without the test for an earlier write
SetterOverwrites(field, sent_spans) ==
    IF Len(sent_spans) = Cardinality({ sent_spans[i] : i \in DOMAIN sent_spans })
    THEN [field |-> <<sent_spans>>, outcome |-> "ok"]
    ELSE [field |-> field, outcome |-> "AssertionError"]

\* the setter of Section.sentence_spans: the field after the call and how
\* the call ended
sentence_spans_setter(field, sent_spans) ==
    IF field = <<>>
    THEN IF Len(sent_spans) = Cardinality({ sent_spans[i] : i \in DOMAIN sent_spans })
         THEN [field |-> <<sent_spans>>, outcome |-> "ok"]
         ELSE [field |-> field, outcome |-> "AssertionError"]
    ELSE [field |-> field, outcome |-> "AttributeError"]

\* the getter of Section.sentence_spans
sentence_spans_getter(field) == IF field # <<>> THEN field[1] ELSE <<>>

\* section.sentence_spans = sent_spans
WriteSentenceSpans ==
    /\ Len(sec_writes) < MaxWrites
    /\ \E sent_spans \in SeqsUpTo(SentenceSpans, MaxSentSpans) :
        LET done == sentence_spans_setter(sentence_spans_field, sent_spans)
        IN  /\ sentence_spans_field' = done.field
            /\ sec_writes' = Append(sec_writes, [sent_spans |-> sent_spans,
                                                 outcome |-> done.outcome])
    /\ sec_read' = <<>>
    /\ UNCHANGED <<sapVars, entVars, idVars, notSecVars>>

\* section.sentence_spans
ReadSentenceSpans ==
    /\ sec_read = <<>>
    /\ sec_read' = <<sentence_spans_getter(sentence_spans_field)>>
    /\ UNCHANGED <<sentence_spans_field, sec_writes>>
    /\ UNCHANGED <<sapVars, entVars, idVars, notSecVars>>

SecNext == WriteSentenceSpans \/ ReadSentenceSpans

SpecSection == Init /\ [][SecNext]_vars

-----------------------------------------------------------------------------
(* Document, the json converter and DocumentJsonUtils.minify_json_dict *)
(* A dict is a record whose fields are <<>> for a key that is absent and  *)
(* <<v>> for a key with the value v.                                      *)

\* largest number of sections of a Document
MaxSections == 2
\* largest number of entities of a Document
MaxDocEntities == 2

\* the entities of the documents: the mappings and the values of
\* syn_term_to_synonym_terms
DocEntities ==
    [match : {"a"}, mappings : {{}, {"m1"}, {"m2"}}, synonym_terms : {<<>>, <<"t1">>}]

\* the values of Section._sentence_spans: <<>> for None, <<tuple>> once written
DocSentenceSpans == {<<>>, << <<>> >>, << <<[start |-> 0, end |-> 1]>> >>}

\* the ways to cut a list into k lists, one for each of k sections
RECURSIVE Splits(_, _)
Splits(q, k) ==
    IF k = 0 THEN (IF q = <<>> THEN {<<>>} ELSE {})
    ELSE UNION { { <<SubSeq(q, 1, i)>> \o rest : rest \in Splits(SubSeq(q, i + 1, Len(q)), k - 1) } :
                 i \in 0..Len(q) }

\* the sections that hold the given lists of entities; sentence_spans is the
\* field _sentence_spans
DocSections(entity_lists) ==
    { [i \in DOMAIN entity_lists |->
        [entities |-> entity_lists[i], name |-> "s", sentence_spans |-> spans[i]]] :
      spans \in [DOMAIN entity_lists -> DocSentenceSpans] }

\* the documents of at most MaxSections sections that hold the entities of
\* the list q between them
Documents(q) ==
    { [idx |-> "d", sections |-> secs] :
        secs \in UNION { UNION { DocSections(entity_lists) : entity_lists \in Splits(q, k) } :
                          k \in 0..MaxSections } }

\* a set as a list
RECURSIVE SetToList(_)
SetToList(S) ==
    IF S = {} THEN <<>>
    ELSE LET x == CHOOSE y \in S : TRUE IN <<x>> \o SetToList(S \ {x})

\* omit_if_default: the key is left out when the field has its default
OmitIfDefault(value, default) == IF value = default THEN <<>> ELSE <<value>>

\* the unstructure hook of Entity: mappings and synonym_terms (the values of
\* syn_term_to_synonym_terms, as a new list) are left out when empty
UnstructureEntity(ent) ==
    [match |-> <<ent.match>>,
     mappings |-> OmitIfDefault(SetToList(ent.mappings), <<>>),
     synonym_terms |-> OmitIfDefault(ent.synonym_terms, <<>>)]

\* the unstructure hook of Section: _sentence_spans is written under the key
\* sentence_spans unless it is None, as the list of its spans
UnstructureSection(section) ==
    [entities |-> OmitIfDefault([i \in DOMAIN section.entities |->
                                    UnstructureEntity(section.entities[i])], <<>>),
     name |-> <<section.name>>,
     sentence_spans |-> IF section.sentence_spans = <<>> THEN <<>>
                        ELSE <<section.sentence_spans[1]>>]

\* _json_converter.unstructure(document)
Unstructure(doc) ==
    [idx |-> <<doc.idx>>,
     sections |-> OmitIfDefault([i \in DOMAIN doc.sections |->
                                    UnstructureSection(doc.sections[i])], <<>>)]

\* the spans of _sentence_spans as a list, none for None
ListOfSpans(field) == IF field = <<>> THEN <<>> ELSE field[1]

\* a dict of the same Document that has every key, as another writer makes it
FullDict(doc) ==
    [idx |-> <<doc.idx>>,
     sections |-> << [i \in DOMAIN doc.sections |->
                        [entities |-> << [j \in DOMAIN doc.sections[i].entities |->
                            [match |-> <<doc.sections[i].entities[j].match>>,
                             mappings |-> <<SetToList(doc.sections[i].entities[j].mappings)>>,
                             synonym_terms |-> <<doc.sections[i].entities[j].synonym_terms>>]] >>,
                         name |-> <<doc.sections[i].name>>,
                         sentence_spans |-> <<ListOfSpans(doc.sections[i].sentence_spans)>>]] >>]

\* `for ent in ents_to_keep: ent["synonym_terms"].clear()` over the kept
\* positions todo of section_entities; stops at the first entity without the key
RECURSIVE clear_terms(_, _)
clear_terms(section_entities, todo) ==
    IF todo = <<>> THEN [ents |-> section_entities, error |-> FALSE]
    ELSE IF section_entities[Head(todo)].synonym_terms = <<>>
         THEN [ents |-> section_entities, error |-> TRUE]
         ELSE clear_terms([section_entities EXCEPT ![Head(todo)].synonym_terms = << <<>> >>],
                          Tail(todo))

\* the body of the loop of minify_json_dict for one section_dict
minify_section(section_dict, drop_unmapped_ents, drop_terms) ==
    IF section_dict.entities = <<>> THEN [section |-> section_dict, error |-> TRUE]
    ELSE LET section_entities == section_dict.entities[1]
         IN  IF drop_unmapped_ents
                /\ \E i \in DOMAIN section_entities : section_entities[i].mappings = <<>>
             THEN [section |-> section_dict, error |-> TRUE]
             ELSE LET ents_to_keep ==
                          SortedSeq({ i \in DOMAIN section_entities :
                                        drop_unmapped_ents => section_entities[i].mappings[1] # <<>> })
                      cleared == IF drop_terms THEN clear_terms(section_entities, ents_to_keep)
                                 ELSE [ents |-> section_entities, error |-> FALSE]
                  IN  IF cleared.error
                      THEN [section |-> [section_dict EXCEPT !.entities = <<cleared.ents>>],
                            error |-> TRUE]
                      ELSE [section |->
                                [section_dict EXCEPT !.entities =
                                    << [j \in DOMAIN ents_to_keep |-> cleared.ents[ents_to_keep[j]]] >>],
                            error |-> FALSE]

\* the loop of minify_json_dict over doc_json_dict["sections"], from section i
RECURSIVE minify_sections(_, _, _, _)
minify_sections(sections, i, drop_unmapped_ents, drop_terms) ==
    IF i > Len(sections) THEN [sections |-> sections, error |-> FALSE]
    ELSE LET done == minify_section(sections[i], drop_unmapped_ents, drop_terms)
         IN  IF done.error
             THEN [sections |-> [sections EXCEPT ![i] = done.section], error |-> TRUE]
             ELSE minify_sections([sections EXCEPT ![i] = done.section], i + 1,
                                  drop_unmapped_ents, drop_terms)

\* in_place as minify_json_dict sees it: True when the argument is not given
InPlace(in_place) == IF in_place = "omitted" THEN TRUE ELSE in_place = "True"

\* DocumentJsonUtils.minify_json_dict: what it returns (<<>> for a KeyError)
\* and what the dict it was given holds afterwards
minify_json_dict(doc_json_dict, drop_unmapped_ents, drop_terms, in_place) ==
    LET work ==
            IF ~(drop_unmapped_ents \/ drop_terms)
            THEN [dict |-> doc_json_dict, error |-> FALSE]
            ELSE IF doc_json_dict.sections = <<>>
            THEN [dict |-> doc_json_dict, error |-> TRUE]
            ELSE LET done == minify_sections(doc_json_dict.sections[1], 1,
                                             drop_unmapped_ents, drop_terms)
                 IN  [dict |-> [doc_json_dict EXCEPT !.sections = <<done.sections>>],
                      error |-> done.error]
    IN  [returned |-> IF work.error THEN <<>> ELSE <<work.dict>>,
         given |-> IF InPlace(in_place) THEN work.dict ELSE doc_json_dict]

\* Document.as_minified_dict
as_minified_dict(doc, drop_unmapped_ents, drop_terms) ==
    minify_json_dict(Unstructure(doc), drop_unmapped_ents, drop_terms, "omitted")

\* json.dumps of a dict: the text, here the dict marked as text
json_dumps(as_dict) == <<"json", as_dict>>

\* the outcome of a call as min_result keeps it
Outcome(returned) == IF returned = <<>> THEN <<"KeyError">> ELSE <<"ok", returned[1]>>

\* the value under a key of a dict, or the default of the field when the
\* key is absent
ValueOr(opt, default) == IF opt = <<>> THEN default ELSE opt[1]

\* a list without the later occurrences of its members
RECURSIVE Distinct(_)
Distinct(q) ==
    IF q = <<>> THEN <<>>
    ELSE LET front == Distinct(SubSeq(q, 1, Len(q) - 1))
         IN  IF \E i \in DOMAIN front : front[i] = q[Len(q)] THEN front
             ELSE Append(front, q[Len(q)])

\* _syn_term_to_synonym_terms_struct_hook: {st: st for st in syn_terms}, as
\* the list of its values
syn_term_to_synonym_terms_struct_hook(synonym_terms) == Distinct(synonym_terms)

\* the structure hook of Entity
StructureEntity(entity_dict) ==
    [match |-> entity_dict.match[1],
     mappings |-> { ValueOr(entity_dict.mappings, <<>>)[i] :
                        i \in DOMAIN ValueOr(entity_dict.mappings, <<>>) },
     synonym_terms |->
        IF entity_dict.synonym_terms = <<>> THEN <<>>
        ELSE syn_term_to_synonym_terms_struct_hook(entity_dict.synonym_terms[1])]

\* the struct_hook of _sentence_spans:
\* None if len(v) == 0 else tuple(structure(x, CharSpan) for x in v)
sentence_spans_struct_hook(v) == IF Len(v) = 0 THEN <<>> ELSE <<v>>

\* the structure hook of Section: a key that is absent leaves the default
StructureSection(section_dict) ==
    [entities |-> [i \in DOMAIN ValueOr(section_dict.entities, <<>>) |->
                    StructureEntity(ValueOr(section_dict.entities, <<>>)[i])],
     name |-> section_dict.name[1],
     sentence_spans |-> IF section_dict.sentence_spans = <<>> THEN <<>>
                        ELSE sentence_spans_struct_hook(section_dict.sentence_spans[1])]

\* Document.from_dict: _json_converter.structure(document_dict, Document)
from_dict(document_dict) ==
    [idx |-> document_dict.idx[1],
     sections |-> [i \in DOMAIN ValueOr(document_dict.sections, <<>>) |->
                    StructureSection(ValueOr(document_dict.sections, <<>>)[i])]]

\* a Document is made
NewDocument ==
    /\ document = <<>>
    /\ \E q \in SeqsUpTo(DocEntities, MaxDocEntities) :
       \E doc \in Documents(q) : document' = <<doc>>
    /\ UNCHANGED <<doc_at_call, min_call, min_input, min_input_after, min_result,
                   from_dict_result>>
    /\ UNCHANGED <<sapVars, entVars, idVars, notDocVars>>

\* document.as_minified_dict(drop_unmapped_ents=..., drop_terms=...)
AsMinifiedDict ==
    /\ document # <<>> /\ min_call = <<>> /\ from_dict_result = <<>>
    /\ \E drop_unmapped_ents \in BOOLEAN, drop_terms \in BOOLEAN :
        LET done == as_minified_dict(document[1], drop_unmapped_ents, drop_terms)
        IN  /\ min_call' = << [drop_unmapped_ents |-> drop_unmapped_ents,
                               drop_terms |-> drop_terms,
                               in_place |-> "omitted",
                               op |-> "as_minified_dict"] >>
            /\ min_input' = <<Unstructure(document[1])>>
            /\ min_input_after' = <<done.given>>
            /\ min_result' = Outcome(done.returned)
    /\ doc_at_call' = document
    /\ UNCHANGED <<document, from_dict_result>>
    /\ UNCHANGED <<sapVars, entVars, idVars, notDocVars>>

\* document.to_json(drop_unmapped_ents=..., drop_terms=...)
ToJson ==
    /\ document # <<>> /\ min_call = <<>> /\ from_dict_result = <<>>
    /\ \E drop_unmapped_ents \in BOOLEAN, drop_terms \in BOOLEAN :
        LET done == as_minified_dict(document[1], drop_unmapped_ents, drop_terms)
        IN  /\ min_call' = << [drop_unmapped_ents |-> drop_unmapped_ents,
                               drop_terms |-> drop_terms,
                               in_place |-> "omitted",
                               op |-> "to_json"] >>
            /\ min_input' = <<Unstructure(document[1])>>
            /\ min_input_after' = <<done.given>>
            /\ min_result' = IF done.returned = <<>> THEN <<"KeyError">>
                              ELSE <<"ok", json_dumps(done.returned[1])>>
    /\ doc_at_call' = document
    /\ UNCHANGED <<document, from_dict_result>>
    /\ UNCHANGED <<sapVars, entVars, idVars, notDocVars>>

\* DocumentJsonUtils.minify_json_dict(d, ...) on a dict of the document
MinifyJsonDict ==
    /\ document # <<>> /\ min_call = <<>> /\ from_dict_result = <<>>
    /\ \E doc_json_dict \in {Unstructure(document[1]), FullDict(document[1])} :
       \E drop_unmapped_ents \in BOOLEAN, drop_terms \in BOOLEAN :
       \E in_place \in {"omitted", "True", "False"} :
        LET done == minify_json_dict(doc_json_dict, drop_unmapped_ents, drop_terms, in_place)
        IN  /\ min_call' = << [drop_unmapped_ents |-> drop_unmapped_ents,
                               drop_terms |-> drop_terms,
                               in_place |-> in_place,
                               op |-> "minify_json_dict"] >>
            /\ min_input' = <<doc_json_dict>>
            /\ min_input_after' = <<done.given>>
            /\ min_result' = Outcome(done.returned)
    /\ doc_at_call' = document
    /\ UNCHANGED <<document, from_dict_result>>
    /\ UNCHANGED <<sapVars, entVars, idVars, notDocVars>>

\* the Document and the dicts are dropped
DiscardDocument ==
    /\ document # <<>>
    /\ document' = <<>>
    /\ doc_at_call' = <<>>
    /\ min_call' = <<>>
    /\ min_input' = <<>>
    /\ min_input_after' = <<>>
    /\ min_result' = <<>>
    /\ from_dict_result' = <<>>
    /\ UNCHANGED <<sapVars, entVars, idVars, notDocVars>>

\* Document.from_dict(document.as_minified_dict())
FromDict ==
    /\ document # <<>> /\ min_call = <<>> /\ from_dict_result = <<>>
    /\ LET done == as_minified_dict(document[1], FALSE, FALSE)
       IN  from_dict_result' = <<from_dict(done.returned[1])>>
    /\ UNCHANGED <<document, doc_at_call, min_call, min_input, min_input_after, min_result>>
    /\ UNCHANGED <<sapVars, entVars, idVars, notDocVars>>

DocNext ==
    NewDocument \/ AsMinifiedDict \/ ToJson \/ MinifyJsonDict \/ FromDict \/ DiscardDocument

SpecDocument == Init /\ [][DocNext]_vars

-----------------------------------------------------------------------------
(* EntityFilterCleanupAction and DropUnmappedEntsEntityFilters            *)
(* An Entity hashes and compares by identity, so a document is given as   *)
(* its Entity instances and, for each section, the list of the instances  *)
(* (by number) that section.entities holds.                               *)

\* largest number of filter functions of an EntityFilterCleanupAction
MaxFilterFns == 2

\* the namespaces of the entities
Namespaces == {"n1", "n2"}

\* what a filter function reads of an Entity
CleanupEntities == [mappings : {{}, {"m1"}}, namespace : Namespaces]

\* the filter functions: lambda ent: ent.namespace == ns and
\* len(ent.mappings) == 0 (unmapped_only), and lambda ent: ent.namespace == ns
FilterFns == [namespace : Namespaces, unmapped_only : BOOLEAN]

\* filter_fn(ent)
CallFilterFn(filter_fn, ent) ==
    /\ ent.namespace = filter_fn.namespace
    /\ filter_fn.unmapped_only => Cardinality(ent.mappings) = 0

\* the instances are numbered in the order of their first occurrence
NumberedInOrder(q) ==
    \A i \in DOMAIN q : q[i] <= Cardinality({ q[j] : j \in 1..(i - 1) }) + 1

\* the documents: instances[n] is the Entity with number n, sections[i] is
\* section.entities of the i-th section
CleanupDocuments ==
    UNION { UNION { { [sections |-> secs, instances |-> h] :
                        h \in [1..Cardinality({ q[j] : j \in DOMAIN q }) -> CleanupEntities],
                        secs \in Splits(q, k) } :
                    k \in 0..MaxSections } :
            q \in { r \in SeqsUpTo(1..MaxDocEntities, MaxDocEntities) : NumberedInOrder(r) } }

\* reduce(filter_combiner, self.filter_fns, section_ents): the filters are
\* chained, each over what the one before let through
RECURSIVE reduce_filter(_, _, _)
reduce_filter(filter_fns, ents, instances) ==
    IF filter_fns = <<>> THEN ents
    ELSE reduce_filter(Tail(filter_fns),
                       { e \in ents : CallFilterFn(Head(filter_fns), instances[e]) },
                       instances)

\* the entities that every filter function let through are the ones kept
FilteredEntsKept(entities, filter_fns, instances) ==
    reduce_filter(filter_fns, { entities[i] : i \in DOMAIN entities }, instances)

\* section_ents after difference_update(filtered_ents)
section_ents_left(entities, filter_fns, instances) ==
    LET section_ents == { entities[i] : i \in DOMAIN entities }
        filtered_ents == reduce_filter(filter_fns, section_ents, instances)
    IN  section_ents \ filtered_ents

\* list(a_set): the members, once each, in the order the set iterates in
ListsOfSet(S) ==
    { q \in SeqsUpTo(S, Cardinality(S)) :
        Len(q) = Cardinality(S) /\ { q[i] : i \in DOMAIN q } = S }

\* EntityFilterCleanupAction.cleanup on the sections of a document: the lists
\* section.entities can be afterwards
RECURSIVE cleanup(_, _, _)
cleanup(sections, filter_fns, instances) ==
    IF sections = <<>> THEN {<<>>}
    ELSE { <<first>> \o rest :
             first \in ListsOfSet(section_ents_left(Head(sections), filter_fns, instances)),
             rest \in cleanup(Tail(sections), filter_fns, instances) }

\* DropUnmappedEntsEntityFilters.filter_fns, the set from_ent_namespaces being
\* iterated in the order `order`: the lambdas read ns when they are called,
\* after the comprehension has ended, so each tests for the last namespace
filter_fns(order) ==
    [i \in DOMAIN order |-> [namespace |-> order[Len(order)], unmapped_only |-> TRUE]]

\* EntityFilterCleanupAction.from_filter_fn_providers: the chain of the lists
\* of the providers
RECURSIVE from_filter_fn_providers(_)
from_filter_fn_providers(filter_providers) ==
    IF filter_providers = <<>> THEN <<>>
    ELSE filter_fns(Head(filter_providers)) \o from_filter_fn_providers(Tail(filter_providers))

\* EntityFilterCleanupAction(filter_fns)
NewEntityFilterCleanupAction ==
    /\ cleanup_action = <<>>
    /\ \E fns \in SeqsUpTo(FilterFns, MaxFilterFns) : cleanup_action' = <<fns>>
    /\ UNCHANGED <<drop_unmapped_namespaces, cleanup_doc_in, cleanup_doc>>
    /\ UNCHANGED <<sapVars, entVars, idVars, notClVars>>

\* EntityFilterCleanupAction.from_filter_fn_providers(
\*     [DropUnmappedEntsEntityFilters(from_ent_namespaces)])
FromFilterFnProviders ==
    /\ cleanup_action = <<>>
    /\ \E from_ent_namespaces \in (SUBSET Namespaces) \ {{}} :
       \E order \in ListsOfSet(from_ent_namespaces) :
        /\ Len(order) <= MaxFilterFns
        /\ cleanup_action' = <<from_filter_fn_providers(<<order>>)>>
        /\ drop_unmapped_namespaces' = from_ent_namespaces
    /\ UNCHANGED <<cleanup_doc_in, cleanup_doc>>
    /\ UNCHANGED <<sapVars, entVars, idVars, notClVars>>

\* a document is handed to the action
NewCleanupDocument ==
    /\ cleanup_action # <<>> /\ cleanup_doc_in = <<>>
    /\ \E doc \in CleanupDocuments : cleanup_doc_in' = <<doc>>
    /\ UNCHANGED <<cleanup_action, drop_unmapped_namespaces, cleanup_doc>>
    /\ UNCHANGED <<sapVars, entVars, idVars, notClVars>>

\* cleanup_action.cleanup(doc)
Cleanup ==
    /\ cleanup_doc_in # <<>> /\ cleanup_doc = <<>>
    /\ \E sections \in cleanup(cleanup_doc_in[1].sections, cleanup_action[1],
                                cleanup_doc_in[1].instances) :
        cleanup_doc' = <<[cleanup_doc_in[1] EXCEPT !.sections = sections]>>
    /\ UNCHANGED <<cleanup_action, drop_unmapped_namespaces, cleanup_doc_in>>
    /\ UNCHANGED <<sapVars, entVars, idVars, notClVars>>

\* the action and the document are dropped
DiscardCleanup ==
    /\ cleanup_doc # <<>>
    /\ cleanup_action' = <<>>
    /\ drop_unmapped_namespaces' = {}
    /\ cleanup_doc_in' = <<>>
    /\ cleanup_doc' = <<>>
    /\ UNCHANGED <<sapVars, entVars, idVars, notClVars>>

CleanupNext ==
    \/ NewEntityFilterCleanupAction
    \/ FromFilterFnProviders
    \/ NewCleanupDocument
    \/ Cleanup
    \/ DiscardCleanup

SpecCleanup == Init /\ [][CleanupNext]_vars

-----------------------------------------------------------------------------
(* CleanupStep._run                                                        *)
(* A CleanupAction is any object with a cleanup(doc) method: it is given   *)
(* by the kinds of document its cleanup raises an Exception on. A document *)
(* keeps the list of the actions whose cleanup was called on it.           *)

\* largest number of cleanup actions of a CleanupStep
MaxCleanupActions == 2
\* largest number of documents handed to one _run call
MaxCleanupDocs == 2

\* the kinds of document
DocKinds == {"k1", "k2"}

\* the cleanup actions
CleanupActions == [raises_on : SUBSET DocKinds]

\* a document before any step has run on it
NewCleanupDoc(kind) == [kind |-> kind, metadata |-> <<>>, applied |-> <<>>]

\* traceback.format_exc() in the handler: the description of the exception
\* that the cleanup of the i-th action raised
format_exc(i) == <<"Traceback", i>>

\* the body of the loop of _run for one document: the cleanup actions from
\* the i-th on, until one raises
RECURSIVE run_actions(_, _, _)
run_actions(doc, actions, i) ==
    IF i > Len(actions) THEN [doc |-> doc, failed |-> FALSE]
    ELSE IF doc.kind \in actions[i].raises_on
         THEN [doc |-> [doc EXCEPT !.metadata = <<format_exc(i)>>, !.applied = Append(@, i)],
               failed |-> TRUE]
         ELSE run_actions([doc EXCEPT !.applied = Append(@, i)], actions, i + 1)

\* the loop stops at the first document that fails
RECURSIVE RunAbortsBatch(_, _, _, _)
RunAbortsBatch(batch, actions, p, failed) ==
    IF p > Len(batch) THEN [docs |-> batch, failed_docs |-> failed]
    ELSE LET done == run_actions(batch[p], actions, 1)
         IN  IF done.failed
             THEN [docs |-> [batch EXCEPT ![p] = done.doc], failed_docs |-> Append(failed, p)]
             ELSE RunAbortsBatch([batch EXCEPT ![p] = done.doc], actions, p + 1, failed)

\* CleanupStep._run from the p-th document on: what it returns, failed_docs
\* being the places in docs of the failed documents
RECURSIVE cleanup_step_run(_, _, _, _)
cleanup_step_run(batch, actions, p, failed) ==
    IF p > Len(batch) THEN [docs |-> batch, failed_docs |-> failed]
    ELSE LET done == run_actions(batch[p], actions, 1)
         IN  cleanup_step_run([batch EXCEPT ![p] = done.doc], actions, p + 1,
                              IF done.failed THEN Append(failed, p) ELSE failed)

\* CleanupStep(depends_on, cleanup_actions)
NewCleanupStep ==
    /\ cleanup_actions = <<>>
    /\ \E actions \in SeqsUpTo(CleanupActions, MaxCleanupActions) :
        cleanup_actions' = <<actions>>
    /\ UNCHANGED <<run_docs_in, run_docs, failed_docs>>
    /\ UNCHANGED <<sapVars, entVars, idVars, notStepVars>>

\* step._run(docs)
RunCleanupStep ==
    /\ cleanup_actions # <<>> /\ run_docs = <<>>
    /\ \E kinds \in SeqsUpTo(DocKinds, MaxCleanupDocs) :
        LET batch == [p \in DOMAIN kinds |-> NewCleanupDoc(kinds[p])]
            done == cleanup_step_run(batch, cleanup_actions[1], 1, <<>>)
        IN  /\ run_docs_in' = <<batch>>
            /\ run_docs' = <<done.docs>>
            /\ failed_docs' = done.failed_docs
    /\ UNCHANGED cleanup_actions
    /\ UNCHANGED <<sapVars, entVars, idVars, notStepVars>>

\* the step and the documents are dropped
DiscardCleanupStep ==
    /\ run_docs # <<>>
    /\ cleanup_actions' = <<>>
    /\ run_docs_in' = <<>>
    /\ run_docs' = <<>>
    /\ failed_docs' = <<>>
    /\ UNCHANGED <<sapVars, entVars, idVars, notStepVars>>

StepNext == NewCleanupStep \/ RunCleanupStep \/ DiscardCleanupStep

SpecCleanupStep == Init /\ [][StepNext]_vars

-----------------------------------------------------------------------------
(* The methods of CharSpan *)

\* CharSpan.__lt__
CharSpanLt(self, other) == self.start < other.start

\* CharSpan.__gt__
CharSpanGt(self, other) == self.end > other.end

\* two CharSpans are made
NewCharSpans ==
    /\ span_self = <<>>
    /\ \E self \in CharSpans, other \in CharSpans :
        span_self' = <<self>> /\ span_other' = <<other>>
    /\ UNCHANGED <<span_query, span_result>>
    /\ UNCHANGED <<sapVars, entVars, idVars, notSpanVars>>

\* self.is_partially_overlapped(other)
SpanPartiallyOverlapped ==
    /\ span_self # <<>> /\ span_result = <<>>
    /\ span_query' = "is_partially_overlapped"
    /\ span_result' = <<CharSpanPartiallyOverlapped(span_self[1], span_other[1])>>
    /\ UNCHANGED <<span_self, span_other>>
    /\ UNCHANGED <<sapVars, entVars, idVars, notSpanVars>>

\* self.is_completely_overlapped(other)
SpanCompletelyOverlapped ==
    /\ span_self # <<>> /\ span_result = <<>>
    /\ span_query' = "is_completely_overlapped"
    /\ span_result' = <<CharSpanCompletelyOverlapped(span_self[1], span_other[1])>>
    /\ UNCHANGED <<span_self, span_other>>
    /\ UNCHANGED <<sapVars, entVars, idVars, notSpanVars>>

\* self < other
SpanLt ==
    /\ span_self # <<>> /\ span_result = <<>>
    /\ span_query' = "__lt__"
    /\ span_result' = <<CharSpanLt(span_self[1], span_other[1])>>
    /\ UNCHANGED <<span_self, span_other>>
    /\ UNCHANGED <<sapVars, entVars, idVars, notSpanVars>>

\* self > other
SpanGt ==
    /\ span_self # <<>> /\ span_result = <<>>
    /\ span_query' = "__gt__"
    /\ span_result' = <<CharSpanGt(span_self[1], span_other[1])>>
    /\ UNCHANGED <<span_self, span_other>>
    /\ UNCHANGED <<sapVars, entVars, idVars, notSpanVars>>

\* the CharSpans are dropped
DiscardCharSpans ==
    /\ span_result # <<>>
    /\ span_self' = <<>>
    /\ span_other' = <<>>
    /\ span_query' = "none"
    /\ span_result' = <<>>
    /\ UNCHANGED <<sapVars, entVars, idVars, notSpanVars>>

SpanNext ==
    \/ NewCharSpans
    \/ SpanPartiallyOverlapped
    \/ SpanCompletelyOverlapped
    \/ SpanLt
    \/ SpanGt
    \/ DiscardCharSpans

SpecCharSpan == Init /\ [][SpanNext]_vars

-----------------------------------------------------------------------------
(* OpsinStep                                                               *)
(* A text is a sequence of characters; python's section[i] is text[i + 1]. *)
(* The OPSIN parser and the RDKit canonicaliser are outside the repository: *)
(* the step is given with the lengths of the names they turn into a SMILES  *)
(* and with what they do on every other name (return None, or throw an      *)
(* exception whose args are given).                                         *)

BREAKS == {" ", "!", "@", "#", "&", "?", "|", "\t", "\n", "\r"}

MaxText == 3

\* the texts of n characters, of a character that is not in BREAKS and one
\* that is
RECURSIVE TextsOfLen(_)
TextsOfLen(n) ==
    IF n = 0 THEN {<<>>}
    ELSE { Append(t, c) : t \in TextsOfLen(n - 1), c \in {"a", " "} }

\* the values range(2, -1, -1) runs through
SpacesRangeAscending == <<0, 1, 2>>

SpacesRange == <<2, 1, 0>>

\* the args of the exceptions the parser or the canonicaliser throws: those
\* of a Py4JJavaError (a message and the java exception) and those of an
\* exception with its message alone
ThrownArgs == { <<"message", "JavaObject">>, <<"message">> }

\* condition is None (<<>>) or a callable, given by its answer on the document
OpsinSteps ==
    [entity_class : {"drug"},
     condition : {<<>>, <<TRUE>>, <<FALSE>>},
     parses : SUBSET (1..MaxText),
     thrown : {<<>>} \cup { <<a>> : a \in ThrownArgs }]

\* a Mapping an earlier step gave to an entity
DictionaryMapping(match) ==
    [source |-> "dictionary", idx |-> <<"id", match>>,
     parser_name |-> "dictionary", default_label |-> match]

\* the Mapping parseString builds for a name
OpsinMapping(name) ==
    [source |-> "Opsin", idx |-> <<"smiles", name>>,
     parser_name |-> "Opsin", default_label |-> name]

\* Entity.load_contiguous_entity(start, end, **kwargs) with the mappings
\* given; id is the identity of the instance, start and end are set by
\* __post_init__ from the one span
ContiguousEntity(id, start, end, namespace, entity_class, match, mappings) ==
    [match |-> match, entity_class |-> entity_class, mappings |-> mappings,
     start |-> start, end |-> end, spans |-> {[start |-> start, end |-> end]},
     namespace |-> namespace, id |-> id]

\* the entities an earlier step found in a text, one character each: of the
\* class of the step with or without a Mapping, of another class without
KnownEntities(text) ==
    { e \in [entity_class : {"drug", "gene"}, mapped : BOOLEAN,
             start : 0..(Len(text) - 1)] :
        e.mapped => e.entity_class = "drug" }

\* the first n of the listed entities of a text, each its own instance
RECURSIVE SectionEntities(_, _, _)
SectionEntities(text, q, n) ==
    IF n = 0 THEN <<>>
    ELSE LET match == SubSeq(text, q[n].start + 1, q[n].start + 1)
         IN  Append(SectionEntities(text, q, n - 1),
                    ContiguousEntity(
                        n, q[n].start, q[n].start + 1, "ner", q[n].entity_class, match,
                        IF q[n].mapped THEN {DictionaryMapping(match)} ELSE {}))

\* a section of the text with the listed entities
OpsinSection(text, q) ==
    [text |-> text, entities |-> SectionEntities(text, q, Len(q))]

\* documents over the text: one section with no, one or two entities, or two
\* sections with no or one entity each
OpsinDocuments(text) ==
    LET E == KnownEntities(text)
        short == {<<>>} \cup { <<e>> : e \in E }
    IN  { [sections |-> <<OpsinSection(text, q)>>] :
            q \in short \cup { <<e, f>> : e \in E, f \in E } }
        \cup
        { [sections |-> <<OpsinSection(text, q), OpsinSection(text, r)>>] :
            q \in short, r \in short }

\* the first while loop of extendString
RECURSIVE ExtendStart(_, _)
ExtendStart(section, start) ==
    IF start > 0 /\ section[start] \notin BREAKS
    THEN ExtendStart(section, start - 1)
    ELSE start

\* the second while loop of extendString
RECURSIVE ExtendEnd(_, _, _)
ExtendEnd(section, end, spaces) ==
    IF end < Len(section) /\ (section[end + 1] \notin BREAKS \/ spaces > 0)
    THEN ExtendEnd(section, end + 1,
                   IF section[end + 1] \in BREAKS THEN spaces - 1 ELSE spaces)
    ELSE end

\* OpsinStep.extendString(ent, section, spaces)
extendString(ent, section, spaces) ==
    LET start == ExtendStart(section, ent.start)
        end == ExtendEnd(section, ent.end, spaces)
    IN  [match |-> SubSeq(section, start + 1, end), start |-> start, end |-> end]

\* step.parseString(name): value is <<>> for None and <<mapping>> otherwise;
\* raised is the exception that leaves parseString. The handler evaluates
\* e.args[1].getMessage()
parseString(step, name) ==
    IF Len(name) \in step.parses
    THEN [raised |-> "none", value |-> <<OpsinMapping(name)>>]
    ELSE IF step.thrown = <<>>
    THEN [raised |-> "none", value |-> <<>>]
    ELSE LET args == step.thrown[1]
         IN  IF Len(args) < 2
             THEN [raised |-> "IndexError", value |-> <<>>]
             ELSE IF args[2] # "JavaObject"
             THEN [raised |-> "AttributeError", value |-> <<>>]
             ELSE [raised |-> "none", value |-> <<>>]

\* the loop over spaces for one entity, from the i-th value of the range on:
\* the new entity (found), the exception that ended it and the parseString
\* calls made
RECURSIVE try_spaces(_, _, _, _, _)
try_spaces(step, ent, text, new_id, i) ==
    IF i > Len(SpacesRange)
    THEN [calls |-> <<>>, found |-> <<>>, raised |-> "none"]
    ELSE LET ext == extendString(ent, text, SpacesRange[i])
             maybe_mapping == parseString(step, ext.match)
             call == [value |-> maybe_mapping.value, name |-> ext.match,
                      raised |-> maybe_mapping.raised]
         IN  IF maybe_mapping.raised # "none"
             THEN [calls |-> <<call>>, found |-> <<>>, raised |-> maybe_mapping.raised]
             ELSE IF maybe_mapping.value # <<>>
             THEN [calls |-> <<call>>,
                   found |-> <<ContiguousEntity(
                                   new_id, ext.start, ext.end, ent.namespace,
                                   ent.entity_class, ext.match,
                                   {maybe_mapping.value[1]})>>,
                   raised |-> "none"]
             ELSE LET rest == try_spaces(step, ent, text, new_id, i + 1)
                  IN  [rest EXCEPT !.calls = <<call>> \o @]

\* the one member of a set of one value
TheOne(S) == CHOOSE x \in S : TRUE

\* the loop over section.entities from the i-th entity on: updated_mappings as
\* the list of its items <<original id, opsin_entity>> in the order of insertion
RECURSIVE collect_updates(_, _, _, _)
collect_updates(step, section, i, updated_mappings) ==
    IF i > Len(section.entities)
    THEN [calls |-> <<>>, raised |-> "none", updated_mappings |-> updated_mappings]
    ELSE IF /\ section.entities[i].entity_class = step.entity_class
            /\ Cardinality(section.entities[i].mappings) = 0
    THEN TheOne({
            IF tried.raised # "none"
            THEN [calls |-> tried.calls, raised |-> tried.raised,
                  updated_mappings |-> updated_mappings]
            ELSE [collect_updates(
                      step, section, i + 1,
                      IF tried.found # <<>>
                      THEN Append(updated_mappings,
                                  <<section.entities[i].id, tried.found[1]>>)
                      ELSE updated_mappings)
                  EXCEPT !.calls = tried.calls \o @] :
            tried \in {try_spaces(step, section.entities[i], section.text,
                                  Len(section.entities) + i, 1)} })
    ELSE collect_updates(step, section, i + 1, updated_mappings)

\* list.remove(x) for an entity of the list: its first occurrence is dropped
ListRemove(entities, id) ==
    LET k == CHOOSE j \in DOMAIN entities :
                 entities[j].id = id /\ \A h \in 1..(j - 1) : entities[h].id # id
    IN  SubSeq(entities, 1, k - 1) \o SubSeq(entities, k + 1, Len(entities))

\* the loop over updated_mappings.items()
RECURSIVE apply_updates(_, _, _)
apply_updates(entities, updated_mappings, i) ==
    IF i > Len(updated_mappings) THEN entities
    ELSE apply_updates(Append(ListRemove(entities, updated_mappings[i][1]),
                              updated_mappings[i][2]),
                       updated_mappings, i + 1)

\* the loop over doc.sections from the i-th section on
RECURSIVE call_sections(_, _, _)
call_sections(step, sections, i) ==
    IF i > Len(sections)
    THEN [calls |-> <<>>, raised |-> "none", sections |-> sections]
    ELSE TheOne({
            IF got.raised # "none"
            THEN [calls |-> got.calls, raised |-> got.raised, sections |-> sections]
            ELSE [call_sections(
                      step,
                      [sections EXCEPT
                          ![i].entities = apply_updates(@, got.updated_mappings, 1)],
                      i + 1)
                  EXCEPT !.calls = got.calls \o @] :
            got \in {collect_updates(step, sections[i], 1, <<>>)} })

\* step.__call__(doc) on one document
opsin_call(step, doc) ==
    IF step.condition # <<>> /\ ~step.condition[1]
    THEN [calls |-> <<>>, doc |-> doc, raised |-> "none"]
    ELSE TheOne({ [calls |-> done.calls, doc |-> [doc EXCEPT !.sections = done.sections],
                   raised |-> done.raised] :
                  done \in {call_sections(step, doc.sections, 1)} })

\* step = OpsinStep(entity_class, ..., condition)
NewOpsinStep ==
    /\ opsin_step = <<>>
    /\ \E step \in OpsinSteps : opsin_step' = <<step>>
    /\ UNCHANGED <<opsin_doc_in, opsin_doc, opsin_calls, opsin_raised>>
    /\ UNCHANGED <<sapVars, entVars, idVars, notOpVars>>

\* a Document with its entities reaches the step
NewOpsinDocument ==
    /\ opsin_step # <<>> /\ opsin_doc_in = <<>>
    /\ \E text \in TextsOfLen(MaxText) : \E doc \in OpsinDocuments(text) :
           opsin_doc_in' = <<doc>>
    /\ UNCHANGED <<opsin_step, opsin_doc, opsin_calls, opsin_raised>>
    /\ UNCHANGED <<sapVars, entVars, idVars, notOpVars>>

\* step.__call__(doc)
OpsinCall ==
    /\ opsin_doc_in # <<>> /\ opsin_doc = <<>>
    /\ \E done \in {opsin_call(opsin_step[1], opsin_doc_in[1])} :
           /\ opsin_doc' = <<done.doc>>
           /\ opsin_calls' = done.calls
           /\ opsin_raised' = done.raised
    /\ UNCHANGED <<opsin_step, opsin_doc_in>>
    /\ UNCHANGED <<sapVars, entVars, idVars, notOpVars>>

\* the step and the document are dropped
DiscardOpsin ==
    /\ opsin_doc # <<>>
    /\ opsin_step' = <<>>
    /\ opsin_doc_in' = <<>>
    /\ opsin_doc' = <<>>
    /\ opsin_calls' = <<>>
    /\ opsin_raised' = "none"
    /\ UNCHANGED <<sapVars, entVars, idVars, notOpVars>>

OpsinNext == NewOpsinStep \/ NewOpsinDocument \/ OpsinCall \/ DiscardOpsin

SpecOpsin == Init /\ [][OpsinNext]_vars

-----------------------------------------------------------------------------
(* Properties of the lookup cache and of _run *)

Range(s) == { s[i] : i \in DOMAIN s }

Ran == pc \in {"returned", "raised"}

\* C1: every update_lookup_cache call of a _run stores its mapping under the
\* key (match, entity_class) of its entity when the cache held no entry for
\* that key, and leaves the cache as it was when an entry was there
C1_FirstWriterWins ==
    \A j \in DOMAIN updates :
        LET u == updates[j]
            ent == docs[cache_misses[j]]
        IN  /\ u.key = <<ent.match, ent.entity_class>>
            /\ IF u.key \in CacheKeys(u.before)
               THEN u.after = u.before
               ELSE /\ u.key \in CacheKeys(u.after)
                    /\ CacheValue(u.after, u.key) = u.mapping

\* a second miss with the same key found the first one's entry, which holds
\* another mapping than the one resolved for the second
C1_Witness ==
    /\ pc = "returned"
    /\ \E j \in DOMAIN updates :
        /\ updates[j].key \in CacheKeys(updates[j].before)
        /\ CacheValue(updates[j].before, updates[j].key) # updates[j].mapping
        /\ CacheValue(lookup_cache, updates[j].key) # updates[j].mapping

\* C2: a key evicted by a store has the fewest uses of the keys resident at
\* that moment
C2_LeastFrequentlyUsedEvicted ==
    \A j \in DOMAIN updates :
        LET u == updates[j]
        IN  \A k \in CacheKeys(u.before) \ CacheKeys(u.after) :
                \A k2 \in CacheKeys(u.before) :
                    CacheUses(u.before, k) <= CacheUses(u.before, k2)

\* a full cache whose entries differ in use count lost its least used key
C2_Witness ==
    /\ pc = "returned"
    /\ \E j \in DOMAIN updates :
        LET u == updates[j]
        IN  /\ Len(u.before) = lookup_cache_size
            /\ \E k \in CacheKeys(u.before) \ CacheKeys(u.after) :
                   \E k2 \in CacheKeys(u.after) \cap CacheKeys(u.before) :
                       CacheUses(u.before, k) < CacheUses(u.before, k2)

\* C3: the misses are, in input order, exactly the candidates whose key had
\* no entry in the cache; every other candidate was given the mapping stored
\* for its key, a miss was given none by the check, and an entity that is no
\* candidate is in neither group
C3_CheckPartitions ==
    Ran =>
        /\ \A a, b \in DOMAIN cache_misses : a < b => cache_misses[a] < cache_misses[b]
        /\ \A i \in DOMAIN docs_in :
              LET k == <<docs_in[i].match, docs_in[i].entity_class>>
                  missed == i \in Range(cache_misses)
              IN  IF i \notin Candidates(docs_in)
                  THEN ~missed /\ docs[i] = docs_in[i]
                  ELSE /\ missed <=> k \notin CacheKeys(cache_pre)
                       /\ ~missed =>
                            docs[i].mappings = <<CacheValue(cache_pre, k)>>
                       /\ missed /\ pc = "raised" => docs[i].mappings = <<>>
                       /\ missed /\ pc = "returned" =>
                            docs[i].mappings = <<updates[CHOOSE j \in DOMAIN cache_misses :
                                                           cache_misses[j] = i].mapping>>

\* a batch of a hit and a miss, in either order, was checked
C3_Witness ==
    /\ pc = "raised"
    /\ Len(docs) = 2
    /\ Candidates(docs_in) = {1, 2}
    /\ Len(cache_misses) = 1
    /\ \E i \in DOMAIN docs : i \notin Range(cache_misses) /\ docs[i].mappings # <<>>

\* C4: a _run whose miss list is empty made no embedding call and added no
\* entry to the cache
C4_NoMissesNoEmbedding ==
    Ran /\ cache_misses = <<>> =>
        /\ embed_calls = 0
        /\ results = <<>>
        /\ updates = <<>>
        /\ CacheKeys(lookup_cache) = CacheKeys(cache_pre)

\* a batch whose candidates were all cache hits went through _run
C4_Witness ==
    /\ pc = "returned"
    /\ cache_misses = <<>>
    /\ Candidates(docs_in) # {}

C6_EmbeddingFailureNoPartialSuccess ==
    (Ran /\ embed_calls = 1 /\ results = <<>>) =>
        /\ pc = "raised"
        /\ \A j \in DOMAIN cache_misses : docs[cache_misses[j]].mappings = <<>>
        /\ updates = <<>>
        /\ CacheKeys(lookup_cache) = CacheKeys(cache_pre)

\* an embedding call failed for a batch with two misses, beside a hit
C6_Witness ==
    /\ pc = "raised"
    /\ Len(cache_misses) >= 1
    /\ Len(docs) > Len(cache_misses)
    /\ lookup_cache # <<>>

-----------------------------------------------------------------------------
(* Properties of Entity *)

Entities == { ent_self[i] : i \in DOMAIN ent_self } \cup { ent_other[i] : i \in DOMAIN ent_other }

\* C7: the start of an Entity is the least start of its spans and its end
\* is the greatest end of its spans
C7_StartEndAreMinMax ==
    \A e \in Entities :
        /\ \E cs \in e.spans : cs.start = e.start
        /\ \A cs \in e.spans : e.start <= cs.start
        /\ \E cs \in e.spans : cs.end = e.end
        /\ \A cs \in e.spans : cs.end <= e.end

\* C8: a construction from an empty span set, by the constructor or by
\* from_spans, raises and leaves no Entity; no Entity has an empty span set
C8_EmptySpansFail ==
    /\ ctor_via # "none" /\ ctor_args = {} =>
          /\ ctor_status = "ValueError"
          /\ ent_other = <<>>
    /\ \A e \in Entities : e.spans # {}
    /\ ctor_status = "ok" => \E e \in Entities : e.spans = ctor_args

\* from_spans was given an empty list after an Entity had been constructed
C8_Witness ==
    /\ ctor_via = "from_spans"
    /\ ctor_args = {}
    /\ ctor_status = "ValueError"
    /\ ent_self # <<>>

\* C9: two Entity instances are equal only when they are the same instance,
\* whatever their fields; a set holds every instance added to it, once
\* each, and still finds each of them after its mappings have changed
C9_IdentityEquality ==
    /\ \A i, j \in DOMAIN heap :
          /\ EntityEq(i, j) <=> i = j
          /\ EntityHash(i) = EntityHash(j) <=> i = j
    /\ Cardinality(ent_set) = Cardinality(added)
    /\ \A i \in added : SetContains(ent_set, i)

\* two instances with the same field values are both in the set, and the set
\* still holds an instance whose mappings changed after it was added
C9_Witness ==
    /\ Cardinality(ent_set) = 2
    /\ \E i, j \in added : i # j /\ heap[i] = heap[j] /\ heap[i].mappings # {}

\* C10: is_partially_overlapped is false when either entity has more than
\* one span, and is the partial overlap of the two spans when each has one
C10_PartialOverlapSingleSpanOnly ==
    overlap_result # <<>> =>
        LET self == ent_self[1]
            other == ent_other[1]
        IN  /\ Cardinality(self.spans) > 1 \/ Cardinality(other.spans) > 1
                  => overlap_result[1] = FALSE
            /\ Cardinality(self.spans) = 1 /\ Cardinality(other.spans) = 1
                  => \A cs \in self.spans : \A ocs \in other.spans :
                        overlap_result[1] =
                            (\/ (ocs.start <= cs.start /\ cs.start <= ocs.end)
                             \/ (ocs.start <= cs.end /\ cs.end <= ocs.end))

\* an entity of two spans that overlap the span of the other was queried
C10_Witness ==
    /\ overlap_result = <<FALSE>>
    /\ Cardinality(ent_self[1].spans) = 2
    /\ Cardinality(ent_other[1].spans) = 1
    /\ \A cs \in ent_self[1].spans : \A ocs \in ent_other[1].spans :
          CharSpanPartiallyOverlapped(cs, ocs)

-----------------------------------------------------------------------------
(* Properties of the synonym term store *)

\* the structural keys passed to update_terms so far
KeysPassed == { term_log[i].skey : i \in DOMAIN term_log }

\* the metric fields
MetricFields == {"search_score", "embed_score", "bool_score", "exact_match"}

\* the last non-null value of a metric among the terms of a key in q, or None
RECURSIVE LastNonNull(_, _, _)
LastNonNull(q, k, f) ==
    IF q = <<>> THEN None
    ELSE LET t == q[Len(q)]
         IN  IF t.skey = k /\ t[f] # None THEN t[f]
             ELSE LastNonNull(SubSeq(q, 1, Len(q) - 1), k, f)

\* the metrics an Entity stores for a structural key
StoredMetrics(d, k) ==
    { [f \in MetricFields |-> d[i].value[f]] : i \in { j \in DOMAIN d : d[j].value.skey = k } }

\* C12: the store holds one entry for every structural key passed in and
\* no other; the metrics of the entry are the last non-null values passed in
\* for its key, or null; a term passed in once for its key is stored as it is
C12_OneEntryPerKeyLastNonNullWins ==
    /\ Len(syn_term_to_synonym_terms) = Cardinality(KeysPassed)
    /\ \A k \in KeysPassed :
          \E i \in DOMAIN syn_term_to_synonym_terms :
              LET v == syn_term_to_synonym_terms[i].value
              IN  /\ v.skey = k
                  /\ \A f \in MetricFields : v[f] = LastNonNull(term_log, k, f)
                  /\ \A j \in DOMAIN term_log :
                        (\A j2 \in DOMAIN term_log : term_log[j2].skey = k => j2 = j)
                            => v = term_log[j]

\* two terms of one structural key, given to two entities in the two orders
SamePair ==
    /\ Len(term_log) = 2
    /\ term_log[1].skey = term_log[2].skey

\* the two terms carry different non-null values of one metric
Conflicting(a, b) ==
    \E f \in MetricFields : a[f] # None /\ b[f] # None /\ a[f] # b[f]

\* C13 as claimed: two terms of one structural key leave the same stored
\* metrics whichever is inserted first
C13_OrderIndependent ==
    SamePair =>
        StoredMetrics(syn_term_to_synonym_terms, term_log[1].skey)
            = StoredMetrics(syn_terms_rev, term_log[1].skey)

\* C13 amended: two terms of one structural key that do not carry different
\* non-null values of the same metric leave the same stored metrics
\* whichever is inserted first
C13_OrderIndependentWithoutConflict ==
    SamePair /\ ~Conflicting(term_log[1], term_log[2]) =>
        StoredMetrics(syn_term_to_synonym_terms, term_log[1].skey)
            = StoredMetrics(syn_terms_rev, term_log[1].skey)

\* two terms that are equal as keys, each with a metric the other lacks,
\* were merged into one entry that has both metrics
C13_Witness ==
    /\ SamePair
    /\ ~Conflicting(term_log[1], term_log[2])
    /\ term_log[1].mapping_types = term_log[2].mapping_types
    /\ term_log[1].search_score # None /\ term_log[2].search_score = None
    /\ term_log[1].embed_score = None /\ term_log[2].embed_score # None
    /\ Len(syn_term_to_synonym_terms) = 1
    /\ syn_term_to_synonym_terms[1].value.search_score # None
    /\ syn_term_to_synonym_terms[1].value.embed_score # None

-----------------------------------------------------------------------------
(* Properties of CuratedTerm *)

\* the confidences of the forms of ct that take part in NER (confidence not
\* IGNORE), are case sensitive or not as cs says, and lowercase to str
ActiveConfidences(ct, cs, str) ==
    { f.mention_confidence :
        f \in { g \in ct.original_forms \cup ct.alternative_forms :
                  /\ g.mention_confidence # IGNORE
                  /\ g.case_sensitive = cs
                  /\ Lower(g.string) = str } }

\* a case-insensitive form is laxer than the case-sensitive forms of its string
CaseConflict(ct) ==
    \E f \in ct.original_forms \cup ct.alternative_forms :
        LET ci == ActiveConfidences(ct, FALSE, Lower(f.string))
            cs == ActiveConfidences(ct, TRUE, Lower(f.string))
        IN  ci # {} /\ cs # {} /\ Min(ci) < Min(cs)

\* C14: the construction of a CuratedTerm with behaviour
\* ADD_FOR_NER_AND_LINKING raises when the least confidence of the active
\* case-insensitive forms of a string is below the least confidence of the
\* active case-sensitive forms of that lowercased string, and does not
\* raise otherwise
C14_CaseConflictRaises ==
    (/\ cur_args # <<>>
     /\ cur_args[1].behaviour = "ADD_FOR_NER_AND_LINKING"
     /\ cur_args[1].original_forms # {})
        => IF CaseConflict(cur_args[1])
           THEN cur_status = "RuntimeError" /\ cur_term = <<>>
           ELSE cur_status = "ok" /\ cur_term = cur_args

\* C15: term_norm_for_linking returns the normalized string when the
\* original forms have one normalized string, and raises when they have
\* more than one; the alternative forms play no part
C15_TermNormSingleOrRaise ==
    norm_result # <<>> =>
        LET ct == cur_term[1]
            N == { [i \in DOMAIN f.string |-> UpperOf(f.string[i])] : f \in ct.original_forms }
        IN  /\ Cardinality(N) = 1 => norm_result = <<"ok", CHOOSE n \in N : TRUE>>
            /\ Cardinality(N) > 1 => norm_result = <<"RuntimeError">>
            /\ N # {}

\* two original forms with one normalized string, beside an alternative
\* form with another, gave that string
C15_Witness ==
    /\ norm_result = <<"ok", <<"A">> >>
    /\ Cardinality({ f.string : f \in cur_term[1].original_forms }) = 2
    /\ \E f \in cur_term[1].alternative_forms : f.string = <<"c">>

-----------------------------------------------------------------------------
(* Properties of GlobalParserActions *)

\* the parser names an action mentions
Mentions(action) ==
    { action.parser_to_target_id_mappings[i].key :
        i \in DOMAIN action.parser_to_target_id_mappings }

\* the members of q that mention p, in the order of q
RECURSIVE Mentioning(_, _)
Mentioning(q, p) ==
    IF q = <<>> THEN <<>>
    ELSE IF p \in Mentions(Head(q))
         THEN <<Head(q)>> \o Mentioning(Tail(q), p)
         ELSE Mentioning(Tail(q), p)

\* C16: parser_behaviour(p) yields the actions that mention p, once for each
\* place they have in the actions list and in the order of that list; for a
\* parser no action mentions it yields nothing, and the index has an entry
\* for the mentioned parsers only
C16_ParserBehaviourInDeclarationOrder ==
    gpa_result # <<>> =>
        /\ gpa_result[1] = Mentioning(gpa[1].actions, gpa_query)
        /\ (\A i \in DOMAIN gpa[1].actions : gpa_query \notin Mentions(gpa[1].actions[i]))
              => gpa_result[1] = <<>>
        /\ { gpa[1].parser_name_to_action[i].key : i \in DOMAIN gpa[1].parser_name_to_action }
              = UNION { Mentions(gpa[1].actions[i]) : i \in DOMAIN gpa[1].actions }

\* of an action for A and B followed by an action for B, a query for B
\* yielded both, the first one first
C16_Witness ==
    /\ gpa_query = "B"
    /\ Len(gpa_result[1]) = 2
    /\ Mentions(gpa[1].actions[1]) = {"A", "B"}
    /\ Mentions(gpa[1].actions[2]) = {"B"}
    /\ gpa_result[1] = gpa[1].actions
    /\ gpa[1].actions[1] # gpa[1].actions[2]

-----------------------------------------------------------------------------
(* Properties of Section.sentence_spans *)

HasDuplicates(q) == \E i, j \in DOMAIN q : i # j /\ q[i] = q[j]

\* the writes that succeeded
OkWrites == { i \in DOMAIN sec_writes : sec_writes[i].outcome = "ok" }

\* C17: the first write without duplicate spans succeeds and fixes the
\* stored spans, in the order given; every write after it raises and the
\* stored spans stay; a write with duplicate spans before it fails and
\* leaves the field unset; a read gives the stored spans, and an empty
\* sequence while nothing is stored
C17_SentenceSpansWriteOnce ==
    /\ Cardinality(OkWrites) <= 1
    /\ OkWrites = {} => sentence_spans_field = <<>>
    /\ \A i \in DOMAIN sec_writes :
          LET w == sec_writes[i]
          IN  /\ (\E j \in OkWrites : j < i) => w.outcome = "AttributeError"
              /\ ~(\E j \in OkWrites : j < i) =>
                    IF HasDuplicates(w.sent_spans)
                    THEN w.outcome = "AssertionError"
                    ELSE w.outcome = "ok" /\ sentence_spans_field = <<w.sent_spans>>
    /\ sec_read # <<>> =>
          sec_read[1] = IF OkWrites = {} THEN <<>>
                        ELSE sec_writes[CHOOSE i \in OkWrites : TRUE].sent_spans

\* a write of duplicate spans failed, a write of two spans, the later span
\* first, succeeded, a write of other spans was refused, and a read gave
\* the spans of the second write
C17_Witness ==
    /\ Len(sec_writes) = 3
    /\ sec_writes[1].outcome = "AssertionError"
    /\ sec_writes[2].outcome = "ok"
    /\ sec_writes[2].sent_spans = <<[start |-> 1, end |-> 1], [start |-> 0, end |-> 1]>>
    /\ sec_writes[3].outcome = "AttributeError"
    /\ ~HasDuplicates(sec_writes[3].sent_spans)
    /\ sec_writes[3].sent_spans # sec_writes[2].sent_spans
    /\ sec_read = <<sec_writes[2].sent_spans>>

-----------------------------------------------------------------------------
(* Properties of the minified dict of a Document *)

\* the list under a key of a dict; no list is an empty list
ListOf(opt) == IF opt = <<>> THEN <<>> ELSE opt[1]

\* the members of a list of entities that have a mapping, in order
RECURSIVE MappedOf(_)
MappedOf(q) ==
    IF q = <<>> THEN <<>>
    ELSE IF Head(q).mappings # {} THEN <<Head(q)>> \o MappedOf(Tail(q))
         ELSE MappedOf(Tail(q))

\* the last call was as_minified_dict
Minified == min_call # <<>> /\ min_call[1].op = "as_minified_dict"

\* C18: as_minified_dict(drop_unmapped_ents=True) ends without an error, and
\* the entity list of every section of the record holds the entities of the
\* section that have a mapping, in their order, and no other
C18_DropUnmappedKeepsExactlyMapped ==
    Minified /\ min_call[1].drop_unmapped_ents =>
        /\ min_result[1] = "ok"
        /\ LET out == ListOf(min_result[2].sections)
               secs == document[1].sections
           IN  /\ Len(out) = Len(secs)
               /\ \A i \in DOMAIN secs :
                     LET got == ListOf(out[i].entities)
                         want == MappedOf(secs[i].entities)
                     IN  /\ Len(got) = Len(want)
                         /\ \A j \in DOMAIN want :
                               /\ got[j].match = <<want[j].match>>
                               /\ ListOf(got[j].mappings) = SetToList(want[j].mappings)

\* C19: as_minified_dict(drop_terms=True) ends without an error and every
\* entity of the record has an empty synonym term list; without
\* drop_unmapped_ents every section of the record has as many entities as
\* the section of the Document
C19_DropTermsEmptiesTermLists ==
    Minified /\ min_call[1].drop_terms =>
        /\ min_result[1] = "ok"
        /\ LET out == ListOf(min_result[2].sections)
               secs == document[1].sections
           IN  /\ Len(out) = Len(secs)
               /\ \A i \in DOMAIN secs :
                     LET got == ListOf(out[i].entities)
                     IN  /\ \A j \in DOMAIN got : ListOf(got[j].synonym_terms) = <<>>
                         /\ ~min_call[1].drop_unmapped_ents
                               => Len(got) = Len(secs[i].entities)

\* C20: a call of as_minified_dict, to_json or minify_json_dict leaves the
\* Document as it was, and minify_json_dict leaves the dict it was given as
\* it was unless it was called with in_place=True
C20_MinificationDoesNotMutate ==
    min_call # <<>> =>
        /\ document = doc_at_call
        /\ (min_call[1].op = "minify_json_dict" /\ min_call[1].in_place # "True")
              => min_input_after = min_input

-----------------------------------------------------------------------------
(* Properties of the lookup cache over the _run calls *)

\* the row of kb_embeddings nearest to the vector, the first of the nearest
NearestRow(vec) ==
    CHOOSE r \in DOMAIN kb_embeddings :
        /\ \A q \in DOMAIN kb_embeddings :
                Abs(vec - kb_embeddings[r]) <= Abs(vec - kb_embeddings[q])
        /\ \A q \in DOMAIN kb_embeddings :
                q < r => Abs(vec - kb_embeddings[q]) > Abs(vec - kb_embeddings[r])

\* C26: whatever _run calls were made, the lookup cache holds at most
\* lookup_cache_size entries, and the Mapping of an entry was stored before
\* under the same key or is the one the nearest-neighbour resolution of this
\* _run call computed for an entity whose (match, entity_class) is the key
C26_CacheBoundedAndResolved ==
    [][ /\ Len(lookup_cache') <= lookup_cache_size
        /\ \A i \in DOMAIN lookup_cache' :
            \/ \E j \in DOMAIN lookup_cache :
                    /\ lookup_cache[j].key = lookup_cache'[i].key
                    /\ lookup_cache[j].value = lookup_cache'[i].value
            \/ \E j \in DOMAIN cache_misses' \cap DOMAIN results' :
                    /\ lookup_cache'[i].key = <<docs_in'[cache_misses'[j]].match,
                                                docs_in'[cache_misses'[j]].entity_class>>
                    /\ lookup_cache'[i].value = NewMapping(kb_ids[NearestRow(results'[j])])
      ]_vars

\* a full cache was given the Mapping resolved for a key it did not hold and
\* is still at its capacity
C26_Witness ==
    /\ pc = "returned"
    /\ Len(lookup_cache) = lookup_cache_size
    /\ \E j \in DOMAIN updates :
        /\ Len(updates[j].before) = lookup_cache_size
        /\ updates[j].key \notin CacheKeys(updates[j].before)
        /\ updates[j].key \in CacheKeys(lookup_cache)
        /\ CacheValue(lookup_cache, updates[j].key) = updates[j].mapping

-----------------------------------------------------------------------------
(* Properties of the round trip of a Document through its record *)

\* C21: the Document that Document.from_dict makes of the record of a Document
\* (as_minified_dict without flags) has the idx, the sections, their names,
\* sentence spans and entities, and the entities' mappings and synonym terms
\* of the Document; a section whose sentence spans were written, also as an
\* empty sequence, has them written in the new Document
C21_RoundTripIsLossless ==
    from_dict_result # <<>> => from_dict_result[1] = document[1]

-----------------------------------------------------------------------------
(* Properties of EntityFilterCleanupAction.cleanup *)

\* cleanup has run on the document
Cleaned == cleanup_doc # <<>>

\* every filter function of the action returns true for the instance e
EveryFnTrue(e) ==
    \A i \in DOMAIN cleanup_action[1] :
        CallFilterFn(cleanup_action[1][i], cleanup_doc_in[1].instances[e])

\* no filter function of the action returns true for the instance e
NoFnTrue(e) ==
    \A i \in DOMAIN cleanup_action[1] :
        ~CallFilterFn(cleanup_action[1][i], cleanup_doc_in[1].instances[e])

C27_DropsUnmappedOfEveryNamespace ==
    (Cleaned /\ drop_unmapped_namespaces # {}) =>
        \A s \in DOMAIN cleanup_doc_in[1].sections :
            \A e \in Range(cleanup_doc_in[1].sections[s]) :
                e \in Range(cleanup_doc[1].sections[s])
                    <=> ~(/\ cleanup_doc_in[1].instances[e].namespace \in drop_unmapped_namespaces
                          /\ cleanup_doc_in[1].instances[e].mappings = {})

\* C28: cleanup with an empty list of filter functions leaves the entities of
\* every section as they were
C28_NoFilterFnsRemovesNothing ==
    (Cleaned /\ cleanup_action[1] = <<>>) =>
        cleanup_doc[1].sections = cleanup_doc_in[1].sections

\* the list q without the members that are not in S
RECURSIVE Restrict(_, _)
Restrict(q, S) ==
    IF q = <<>> THEN <<>>
    ELSE IF Head(q) \in S THEN <<Head(q)>> \o Restrict(Tail(q), S)
         ELSE Restrict(Tail(q), S)

\* C29: the entity list of a section after cleanup is the list before cleanup
\* without the removed entities: the entities that are left are in the order
\* they were in and occur as often as they did
C29_OrderAndMultiplicityKept ==
    Cleaned =>
        \A s \in DOMAIN cleanup_doc_in[1].sections :
            cleanup_doc[1].sections[s]
                = Restrict(cleanup_doc_in[1].sections[s], Range(cleanup_doc[1].sections[s]))

-----------------------------------------------------------------------------
(* Properties of CleanupStep._run *)

\* _run has returned
StepRan == run_docs # <<>>

\* the cleanup of one of the actions raised on the p-th document
SomeActionRaised(p) ==
    \E i \in DOMAIN cleanup_actions[1] :
        /\ run_docs_in[1][p].kind \in cleanup_actions[1][i].raises_on
        /\ \A j \in 1..(i - 1) : run_docs_in[1][p].kind \notin cleanup_actions[1][j].raises_on

\* the actions 1..n in order
Upto(n) == [i \in 1..n |-> i]

\* the actions up to the first one whose cleanup raises on the p-th
\* document: all of them when none raises
UptoFirstRaise(p) ==
    LET raising == { i \in DOMAIN cleanup_actions[1] :
                        run_docs_in[1][p].kind \in cleanup_actions[1][i].raises_on }
    IN  IF raising = {} THEN Upto(Len(cleanup_actions[1]))
        ELSE Upto(CHOOSE i \in raising : \A j \in raising : i <= j)

\* a document is in failed_docs exactly if the cleanup of one of its actions
\* raised, once, and then the description is under PROCESSING_EXCEPTION
FailedIffRaised ==
    /\ \A p \in DOMAIN run_docs[1] :
        /\ p \in Range(failed_docs) <=> SomeActionRaised(p)
        /\ p \in Range(failed_docs) => run_docs[1][p].metadata # <<>>
    /\ Range(failed_docs) \subseteq DOMAIN run_docs[1]

\* C23 as claimed: failures are handled for each document: a document is in
\* the failed list exactly if one of its cleanup actions raised, it then has
\* the description under metadata[PROCESSING_EXCEPTION], and every document
\* after a failed one has had every cleanup action applied
C23_FailureKeptToTheDocument ==
    StepRan =>
        /\ FailedIffRaised
        /\ \A p \in Range(failed_docs) :
            \A q \in DOMAIN run_docs[1] :
                q > p => run_docs[1][q].applied = Upto(Len(cleanup_actions[1]))

\* C23 as amended: as claimed, but a document after a failed one has had
\* the cleanup actions applied in order until one of them raised on it:
\* every one when none raised
C23_LaterDocumentsStillProcessed ==
    StepRan =>
        /\ FailedIffRaised
        /\ \A p \in Range(failed_docs) :
            \A q \in DOMAIN run_docs[1] :
                q > p => run_docs[1][q].applied = UptoFirstRaise(q)

\* two actions and two documents: the second action raised on the first
\* document, and both actions were applied to the second document
C23_Witness ==
    /\ StepRan
    /\ Len(cleanup_actions[1]) = 2 /\ Len(run_docs[1]) = 2
    /\ failed_docs = <<1>>
    /\ run_docs[1][1].metadata = <<format_exc(2)>>
    /\ run_docs[1][2].applied = <<1, 2>>

-----------------------------------------------------------------------------
(* Properties of the methods of CharSpan *)

\* the position is within the inclusive range of the CharSpan
WithinInclusive(position, cs) == cs.start <= position /\ position <= cs.end

\* C25: a.is_partially_overlapped(b) is true exactly if an endpoint of one of
\* the two spans is within the inclusive range of the other one, whichever of
\* the two is the one: so it is true when b lies strictly inside a
C25_PartiallyOverlappedIsSymmetric ==
    span_query = "is_partially_overlapped" =>
        (span_result[1] <=>
            \/ WithinInclusive(span_self[1].start, span_other[1])
            \/ WithinInclusive(span_self[1].end, span_other[1])
            \/ WithinInclusive(span_other[1].start, span_self[1])
            \/ WithinInclusive(span_other[1].end, span_self[1]))

-----------------------------------------------------------------------------
(* Properties of OpsinStep *)

OpsinRan == opsin_doc # <<>>

\* the parser and the canonicaliser turn the name into a SMILES
Parses(name) == Len(name) \in opsin_step[1].parses

\* the parser or the canonicaliser throws on the name
Throws(step, name) == Len(name) \notin step.parses /\ step.thrown # <<>>

\* the entities __call__ looks at: of the class of the step, without a mapping
Unmapped(e) == e.entity_class = opsin_step[1].entity_class /\ e.mappings = {}

EntitiesBefore(s) == Range(opsin_doc_in[1].sections[s].entities)

EntitiesAfter(s) == Range(opsin_doc[1].sections[s].entities)

\* the entity n is built from the first of the extensions of e in the text,
\* tried with 2, then 1, then 0 trailing breaks, that parses
FirstParsingExtension(e, text, n) ==
    \E k \in 0..2 :
        /\ Parses(extendString(e, text, k).match)
        /\ \A h \in (k + 1)..2 : ~Parses(extendString(e, text, h).match)
        /\ n.match = extendString(e, text, k).match
        /\ n.spans = {[start |-> extendString(e, text, k).start,
                       end |-> extendString(e, text, k).end]}

\* C24: whenever the parser or the canonicaliser throws on a name, whatever
\* the args of the exception, parseString returns None and lets no exception
\* through, and no entity of the document gets a Mapping of OPSIN for that
\* name
C24_ParseStringNeverPropagates ==
    OpsinRan =>
        \A i \in DOMAIN opsin_calls :
            Throws(opsin_step[1], opsin_calls[i].name) =>
                /\ opsin_calls[i].raised = "none"
                /\ opsin_calls[i].value = <<>>
                /\ opsin_raised = "none"
                /\ \A s \in DOMAIN opsin_doc[1].sections :
                       \A n \in EntitiesAfter(s) : \A mp \in n.mappings :
                           mp.source = "Opsin" => mp.default_label # opsin_calls[i].name

\* C30: __call__ keeps the number of entities of every section and leaves
\* every entity that is of another class or has a mapping as it was; the
\* unmapped entities of the class that are gone are replaced one for one by
\* new entities of a single span that contains the range of the original and
\* is the first of its extensions with 2, 1, then 0 trailing breaks that
\* parses; a document the condition rejects is not modified
C30_CallReplacesWithFirstParsingExtension ==
    OpsinRan =>
        /\ Len(opsin_doc[1].sections) = Len(opsin_doc_in[1].sections)
        /\ \A s \in DOMAIN opsin_doc_in[1].sections :
            /\ Len(opsin_doc[1].sections[s].entities)
                   = Len(opsin_doc_in[1].sections[s].entities)
            /\ opsin_doc[1].sections[s].text = opsin_doc_in[1].sections[s].text
            /\ \A e \in EntitiesBefore(s) : ~Unmapped(e) => e \in EntitiesAfter(s)
            /\ \E f \in [EntitiesBefore(s) \ EntitiesAfter(s)
                            -> EntitiesAfter(s) \ EntitiesBefore(s)] :
                /\ \A e1, e2 \in DOMAIN f : f[e1] = f[e2] => e1 = e2
                /\ \A e \in DOMAIN f :
                    /\ Cardinality(f[e].spans) = 1
                    /\ \A sp \in f[e].spans : sp.start <= e.start /\ e.end <= sp.end
                    /\ FirstParsingExtension(e, opsin_doc_in[1].sections[s].text, f[e])
        /\ (opsin_step[1].condition = <<FALSE>>) => opsin_doc = opsin_doc_in

\* in a section of two entities, an unmapped entity of the class was replaced
\* by its extension with one trailing break, the one with two not parsing and
\* the one with none parsing too, and the other entity is left as it was
C30_Witness ==
    /\ OpsinRan
    /\ \E s \in DOMAIN opsin_doc_in[1].sections :
        /\ Len(opsin_doc_in[1].sections[s].entities) = 2
        /\ \E e \in EntitiesBefore(s) \ EntitiesAfter(s) :
           \E n \in EntitiesAfter(s) \ EntitiesBefore(s) :
           \E o \in EntitiesBefore(s) \cap EntitiesAfter(s) :
            LET text == opsin_doc_in[1].sections[s].text
            IN  /\ ~Parses(extendString(e, text, 2).match)
                /\ Parses(extendString(e, text, 1).match)
                /\ Parses(extendString(e, text, 0).match)
                /\ extendString(e, text, 1).match # extendString(e, text, 0).match
                /\ n.match = extendString(e, text, 1).match
                /\ o.mappings # {}

====
